---- MODULE Spec2Model ----
(***************************************************************************)
(* A model of the baas-client session/command protocol layer               *)
(* (pkg/client/program.go, pkg/client/baas.go).                            *)
(*                                                                         *)
(* Go strings are modelled as sequences of one-character strings, so that  *)
(* concatenation, slicing (extra[2:]) and scanning behave as in the code.  *)
(***************************************************************************)
EXTENDS Integers, Sequences, FiniteSets, TLC

VARIABLES
    \* ---- command encoder (program.go: functionCall*, addArgs) ----
    encName,      \* operation name handed to the builders
    encArgs,      \* the `args ...any` list handed to functionCallN
    fixedOut,     \* result of functionCall0/1/2 on the same logical call
    variadicOut,  \* result of functionCallN
    indexedOut,   \* [method, out] of an indexed Facade method (ClickN, ...)
    \* ---- one call of baasClient.Message (baas.go) ----
    msgPc,        \* "call" before the call, "done" after it returned
    msgCtxDone,   \* whether ctx is already cancelled when the call is made
    msgRequestID, \* the request identifier lo.RandomString generated
    msgResponse,  \* what the HTTP round trip yields: [transportErr, status, body]
    msgRespBytes, \* local respBytes after the fix-up and the bracket wrapping
    msgObjects,   \* local baasResponseObjects
    msgFound,     \* what lo.Find returned (<<>> when not found)
    msgRet,       \* the returned (*BrowserMessageOut, error)
    \* ---- one Program: NewProgram, its goroutine, runProgram (program.go) ----
    parentErr,    \* Err() of the context the caller passed to NewProgram
    ctxErr,       \* Err() of the program's context ("nil" while not done)
    cancelledAt,  \* history: whether the caller's context ended before a
                  \* session identifier was assigned ("never" if it did not end)
    sessionID,    \* p.sessionID
    pErr,         \* p.err
    bgPc,         \* position of the goroutine NewProgram starts
    bgRes,        \* its local res (<<>> for nil)
    bgWait,       \* whether its local wait (the drain closure) is non-nil
    bgErr,        \* its local err
    drainCalls,   \* how many times it has invoked the drain closure
    startPosts,   \* history: POSTs sent to the session-start endpoint
    idAssignments, \* history: executions of p.sessionID = res.SessionID
    linesRead,    \* history: lines read off the start stream so far
    closes,       \* history: calls of resp.Body.Close() on the start response
    drainEnd,     \* history: why the drain loop ended: "none", "EOF", "error"
    pSecrets,     \* p.secrets
    pValues,      \* p.values
    respBody,         \* the start response's body: "none", "open" or "closed"
    linesLeft,    \* lines of the start stream the service has yet to send
    remoteAlive,  \* whether the remote session exists on the service
    mainPc,       \* position of the NewProgram call
    newRet,       \* what NewProgram returned: [prog, err, sid]
    dispPc,       \* per caller: position of its runProgram call
    dispRequestID, \* per caller: the request identifier Message generated
    dispIssuedIn, \* per caller, history: the session's state at the call
    dispRequest,  \* per caller: the dto.BrowserMessageIn it sent
    dispPosts,    \* per caller, history: POSTs sent for its current call
    dispMsg,      \* per caller: what client.Message returned to runProgram
    dispRet,      \* per caller: what runProgram returned
    dispCount     \* runProgram calls made so far, by all callers

\* One Facade call that returns a typed result.
VARIABLES
    facPc,        \* position of the Facade call
    facMethod,    \* the Facade method called
    facIn,        \* its arguments: [program, arg1, arg2, elements, index, opts]
    facCommands,  \* history: the command strings it passed to runProgram
    facFile,      \* the file it was asked to write (<<>> while not written)
    facRequestID, \* the request identifier Message generated for it
    facResponse,  \* what the HTTP round trip yields
    facRes,       \* what runProgram returned to the method
    facOut,       \* how the method ended: [panicked, value, err]
    facSecrets,   \* the secrets map of the program (WithSecrets)
    facWrite,     \* what os.WriteFile does when the method calls it
    facReports,   \* history: the messages passed to the Reporter, in order
    facTimeout,   \* cfg.MessageTimeout, the Timeout of every request
    facHttpTimeout \* history: the Timeout of the http.Client, in ms ("none": no call)

\* One option list handed to addArgs.
VARIABLES
    optPc,        \* position: "encode", "done" ("idle" in the other specifications)
    optList,      \* the []ActionOption of the call
    optFlags      \* the []string the options built, before it is joined

encVars == <<encName, encArgs, fixedOut, variadicOut, indexedOut>>

msgVars == <<msgPc, msgCtxDone, msgRequestID, msgResponse, msgRespBytes, msgObjects,
             msgFound, msgRet>>

\* the variables of the callers' runProgram calls
dispVars == <<dispPc, dispRequestID, dispIssuedIn, dispRequest, dispPosts, dispMsg, dispRet,
             dispCount>>

\* the fields of the program set at construction
cfgVars == <<pSecrets, pValues>>

sesVars == <<parentErr, ctxErr, cancelledAt, sessionID, pErr, bgPc, bgRes, bgWait, bgErr,
             drainCalls, startPosts, idAssignments, linesRead, closes, drainEnd, cfgVars, respBody,
             linesLeft, remoteAlive, mainPc, newRet, dispVars>>

facVars == <<facPc, facMethod, facIn, facCommands, facFile, facRequestID, facResponse,
            facRes, facOut, facSecrets, facWrite, facReports, facTimeout, facHttpTimeout>>

optVars == <<optPc, optList, optFlags>>

\* what the actions of each part leave alone
nonEncVars == <<msgVars, sesVars, facVars, optVars>>

nonMsgVars == <<encVars, sesVars, facVars, optVars>>

nonSesVars == <<encVars, msgVars, facVars, optVars>>

nonFacVars == <<encVars, msgVars, sesVars, optVars>>

nonOptVars == <<encVars, msgVars, sesVars, facVars>>

vars == <<encVars, msgVars, sesVars, facVars, optVars>>

-----------------------------------------------------------------------------
(* Bounds of the model.                                                    *)

\* longest `args ...any` list given to the builders
MaxItems == 3

\* most JSON objects in one response body
MaxObjects == 3

\* most lines the service sends on the start stream after the first one
MaxLines == 1

\* most runProgram calls the caller makes on one Program
MaxDispatches == 2

-----------------------------------------------------------------------------
(* String literals of the source, as character sequences.                  *)

sWithoutTimeout   == <<"w", "i", "t", "h", "o", "u", "t", "T", "i", "m", "e", "o", "u", "t">>
sAllowTags        == <<"a", "l", "l", "o", "w", "T", "a", "g", "s", ":">>
sAllowAttributes  == <<"a", "l", "l", "o", "w", "A", "t", "t", "r", "i", "b", "u", "t", "e", "s", ":">>
sTimeout          == <<"t", "i", "m", "e", "o", "u", "t", ":">>
sSelector         == <<"s", "e", "l", "e", "c", "t", "o", "r", ":">>
sSecretArgs       == <<"s", "e", "c", "r", "e", "t", "A", "r", "g", "s">>
sIncludeInvisible == <<"i", "n", "c", "l", "u", "d", "e", "I", "n", "v", "i", "s", "i", "b", "l", "e">>
sIframe           == <<"i", "f", "r", "a", "m", "e", ":">>

sClickN               == <<"c", "l", "i", "c", "k", "N">>
sSetValueN            == <<"s", "e", "t", "V", "a", "l", "u", "e", "N">>
sGetElementValueN     == <<"g", "e", "t", "E", "l", "e", "m", "e", "n", "t", "V", "a", "l", "u", "e", "N">>
sScrollIntoViewN      == <<"s", "c", "r", "o", "l", "l", "I", "n", "t", "o", "V", "i", "e", "w", "N">>
sGetElementInnerTextN == <<"g", "e", "t", "E", "l", "e", "m", "e", "n", "t", "I", "n", "n", "e", "r", "T", "e", "x", "t", "N">>

\* sample inputs of the encoder
sFoo    == <<"f", "o", "o">>
sClick  == <<"c", "l", "i", "c", "k">>
sButton == <<".", "b", "u", "t", "t", "o", "n">>
sValue  == <<"v", "a", "l", "u", "e">>
s2s     == <<"2", "s">>
sForm   == <<".", "f", "o", "r", "m">>
sTagB   == <<"b">>
sTagI   == <<"i">>

-----------------------------------------------------------------------------
(* Library functions the encoder uses.                                     *)

\* the positions of s that satisfy Hit, in increasing order
Positions(s, Hit(_)) ==
    LET hits == {i \in 1..Len(s) : Hit(i)}
    IN [k \in 1..Cardinality(hits) |->
          CHOOSE i \in hits : Cardinality({j \in hits : j <= i}) = k]

\* strings.Join(elems, sep)
RECURSIVE Join(_, _)
Join(elems, sep) ==
    IF Len(elems) = 0 THEN <<>>
    ELSE IF Len(elems) = 1 THEN elems[1]
    ELSE elems[1] \o sep \o Join(Tail(elems), sep)

Digit(d) == <<"0", "1", "2", "3", "4", "5", "6", "7", "8", "9">>[d + 1]

\* decimal rendering of a non-negative int
RECURSIVE Digits(_)
Digits(n) == IF n < 10 THEN <<Digit(n)>> ELSE Digits(n \div 10) \o <<Digit(n % 10)>>

\* fmt.Sprint(v) / the %d verb for an int
Itoa(n) == IF n < 0 THEN <<"-">> \o Digits(-n) ELSE Digits(n)

-----------------------------------------------------------------------------
(* ActionOption: a closure from the accumulated flag list to the updated   *)
(* list.  A closure is represented by its constructor and captured         *)
(* parameters; ApplyOption is the call of the closure.                     *)

WithoutTimeout       == [kind |-> "WithoutTimeout", params |-> <<>>]
WithAllowTags(tags)  == [kind |-> "WithAllowTags", params |-> tags]
WithAllowAttrs(attrs) == [kind |-> "WithAllowAttrs", params |-> attrs]
WithTimeout(timeout) == [kind |-> "WithTimeout", params |-> <<timeout>>]
WithSelector(selector) == [kind |-> "WithSelector", params |-> <<selector>>]
WithSecretArgs       == [kind |-> "WithSecretArgs", params |-> <<>>]
WithIncludeInvisible == [kind |-> "WithIncludeInvisible", params |-> <<>>]
WithIframe(selector) == [kind |-> "WithIframe", params |-> <<selector>>]

\* opt(args): the body of the closure each constructor returns
ApplyOption(opt, args) ==
    CASE opt.kind = "WithoutTimeout" -> Append(args, sWithoutTimeout)
      [] opt.kind = "WithAllowTags" -> Append(args, sAllowTags \o Join(opt.params, <<",">>))
      [] opt.kind = "WithAllowAttrs" -> Append(args, sAllowAttributes \o Join(opt.params, <<",">>))
      [] opt.kind = "WithTimeout" -> Append(args, sTimeout \o opt.params[1])
      [] opt.kind = "WithSelector" -> Append(args, sSelector \o opt.params[1])
      [] opt.kind = "WithSecretArgs" -> Append(args, sSecretArgs)
      [] opt.kind = "WithIncludeInvisible" -> Append(args, sIncludeInvisible)
      [] opt.kind = "WithIframe" -> Append(args, sIframe \o opt.params[1])

\* the loop `for _, opt := range opts { addArgs = opt(addArgs) }`
RECURSIVE ApplyAll(_, _)
ApplyAll(opts, acc) ==
    IF Len(opts) = 0 THEN acc ELSE ApplyAll(Tail(opts), ApplyOption(Head(opts), acc))

\* seq without the elements that repeat an earlier one
Deduplicated(seq) ==
    LET IsFirst(i) == \A j \in 1..(i - 1) : seq[j] # seq[i]
        keep == Positions(seq, IsFirst)
    IN [k \in 1..Len(keep) |-> seq[keep[k]]]

\* addArgs dropping repeated flags
addArgsDeduplicating(opts) ==
    LET flags == Deduplicated(ApplyAll(opts, <<>>))
    IN IF Len(flags) > 0
       THEN <<",", " ">> \o <<"'">> \o Join(flags, <<"'", ",", "'">>) \o <<"'">>
       ELSE <<>>

\* program.addArgs
addArgs(opts) ==
    LET flags == ApplyAll(opts, <<>>)
    IN IF Len(flags) > 0
       THEN <<",", " ">> \o <<"'">> \o Join(flags, <<"'", ",", "'">>) \o <<"'">>
       ELSE <<>>

\* program.functionCall0
functionCall0(name, opts) ==
    name \o <<"(">> \o addArgs(opts) \o <<")">>

\* program.functionCall1
functionCall1(name, arg1, opts) ==
    name \o <<"(", "'">> \o arg1 \o <<"'">> \o addArgs(opts) \o <<")">>

\* program.functionCall2
functionCall2(name, arg1, arg2, opts) ==
    name \o <<"(", "'">> \o arg1 \o <<"'", ",", " ", "'">> \o arg2 \o <<"'">>
         \o addArgs(opts) \o <<")">>

(* An element of `args ...any`: a string, an ActionOption, a []ActionOption *)
(* or another scalar (an int).                                             *)
StrItem(s)   == [type |-> "string", v |-> s]
OptItem(o)   == [type |-> "ActionOption", v |-> o]
OptsItem(os) == [type |-> "[]ActionOption", v |-> os]
IntItem(n)   == [type |-> "int", v |-> n]

\* the type switch of functionCallN: what it collects into argStrings
RECURSIVE ArgStrings(_)
ArgStrings(args) ==
    IF Len(args) = 0 THEN <<>>
    ELSE LET arg == Head(args)
         IN (CASE arg.type = "string" -> <<arg.v>>
               [] arg.type = "ActionOption" -> <<>>
               [] arg.type = "[]ActionOption" -> <<>>
               [] OTHER -> <<Itoa(arg.v)>>) \o ArgStrings(Tail(args))

\* the type switch of functionCallN: what it collects into argOpts
RECURSIVE ArgOpts(_)
ArgOpts(args) ==
    IF Len(args) = 0 THEN <<>>
    ELSE LET arg == Head(args)
         IN (CASE arg.type = "ActionOption" -> <<arg.v>>
               [] arg.type = "[]ActionOption" -> arg.v
               [] OTHER -> <<>>) \o ArgOpts(Tail(args))

\* the loop writing the quoted positional arguments into the builder
RECURSIVE WriteArgs(_, _)
WriteArgs(argStrings, i) ==
    IF i > Len(argStrings) THEN <<>>
    ELSE (IF i > 1 THEN <<",", " ">> ELSE <<>>)
         \o <<"'">> \o argStrings[i] \o <<"'">> \o WriteArgs(argStrings, i + 1)

\* program.functionCallN
functionCallN(name, args) ==
    LET argStrings == ArgStrings(args)
        argOpts    == ArgOpts(args)
        extra      == addArgs(argOpts)
    IN name \o <<"(">> \o WriteArgs(argStrings, 1)
         \o (IF extra # <<>>
             THEN IF Len(argStrings) = 0 /\ Len(extra) > 2
                  THEN SubSeq(extra, 3, Len(extra))
                  ELSE extra
             ELSE <<>>)
         \o <<")">>

\* the program string of ClickN, GetElementValueN, ScrollIntoViewN and
\* GetElementInnerTextN: fmt.Sprintf("<name>('%s', %d%s)", selector, index, addArgs)
IndexedCall(name, selector, index, opts) ==
    name \o <<"(", "'">> \o selector \o <<"'", ",", " ">> \o Itoa(index)
         \o addArgs(opts) \o <<")">>

\* program.ClickN
ClickNProgram(selector, index, opts) == IndexedCall(sClickN, selector, index, opts)

\* program.GetElementValueN
GetElementValueNProgram(selector, index, opts) ==
    IndexedCall(sGetElementValueN, selector, index, opts)

\* program.ScrollIntoViewN
ScrollIntoViewNProgram(selector, index, opts) ==
    IndexedCall(sScrollIntoViewN, selector, index, opts)

\* program.GetElementInnerTextN
GetElementInnerTextNProgram(selector, index, opts) ==
    IndexedCall(sGetElementInnerTextN, selector, index, opts)

\* program.SetValueN: fmt.Sprintf("setValueN('%s', %d, '%s'%s)", ...)
SetValueNProgram(selector, index, value, opts) ==
    sSetValueN \o <<"(", "'">> \o selector \o <<"'", ",", " ">> \o Itoa(index)
         \o <<",", " ", "'">> \o value \o <<"'">> \o addArgs(opts) \o <<")">>

-----------------------------------------------------------------------------
(* Transport Client and Response Correlator (baas.go).                     *)
(*                                                                         *)
(* A response body is a sequence of tokens: the structural characters      *)
(* "{", "}", "[", "]", ",", the newline "\n", and one token for the member *)
(* list of an object (what stands between its braces).                     *)

\* the member lists the service may send, and the envelope each decodes to
\* (json.Unmarshal into dto.BrowserMessageOut)
Members == {"a1", "b1", "b2", "a!", "aE"}

Envelope(sid, requestID, value, metaError, requestUID, error) ==
    [sessionID |-> sid, requestID |-> requestID, value |-> value,
     metaError |-> metaError, requestUID |-> requestUID, error |-> error,
     downloadedFile |-> "", screenshots |-> {}]

\* the dynamic value json.Unmarshal stores in a field of type any: nil when
\* the member is absent or null, else float64, string, bool or a map
Absent == [type |-> "nil", val |-> ""]

Float64(v) == [type |-> "float64", val |-> v]

String(v) == [type |-> "string", val |-> v]

Bool(v) == [type |-> "bool", val |-> v]

Map(v) == [type |-> "map[string]interface {}", val |-> v]

\* further member lists, which differ in the dynamic type of "value"
TypedMembers == {"aS", "aT", "aN", "aO", "aF", "aP", "aQ", "aZ"}

Objects == Members \cup TypedMembers

UnmarshalObject(members) ==
    CASE members = "a1" -> Envelope("s1", "a", Float64("1"), "", "job1", "")
      [] members = "b1" -> Envelope("s1", "b", Float64("1"), "", "job1", "")
      [] members = "b2" -> Envelope("s1", "b", Float64("2"), "", "job2", "")
      [] members = "a!" -> Envelope("s1", "a", Absent, "boom", "job3", "")
      [] members = "aE" -> Envelope("s1", "a", Absent, "", "job4", "remote failure")
      [] members = "aS" -> Envelope("s1", "a", String("text"), "", "job5", "")
      [] members = "aT" -> Envelope("s1", "a", Bool("true"), "", "job6", "")
      [] members = "aN" -> Envelope("s1", "a", Absent, "", "job7", "")
      [] members = "aO" -> Envelope("s1", "a", Map("{}"), "", "job8", "")
      [] members = "aF" -> [Envelope("s1", "a", Bool("true"), "", "job9", "")
                              EXCEPT !.downloadedFile = "%PDF"]
      [] members = "aP" -> [Envelope("s1", "a", Absent, "", "job10", "")
                              EXCEPT !.screenshots = {[name |-> sButton, bytes |-> "PNG"]}]
      [] members = "aQ" -> [Envelope("s1", "a", Absent, "", "job11", "")
                              EXCEPT !.screenshots = {[name |-> sForm, bytes |-> "PNG"]}]
      [] members = "aZ" -> [Envelope("s1", "a", Absent, "", "job12", "")
                              EXCEPT !.screenshots = {[name |-> sButton, bytes |-> ""]}]

\* an error value whose message leaves the request UID out
ErrorWithoutUID(kind, requestID, status, body, message, requestUID) ==
    [kind |-> kind, requestID |-> requestID, status |-> status, body |-> body,
     message |-> message, requestUID |-> ""]

\* an error value: its kind and what its message carries
Error(kind, requestID, status, body, message, requestUID) ==
    [kind |-> kind, requestID |-> requestID, status |-> status, body |-> body,
     message |-> message, requestUID |-> requestUID]

NilError == Error("nil", "", 0, <<>>, "", "")

\* runClient reporting a refused status without the response body
runClientDroppingBody(ctxDone, resp) ==
    IF ctxDone \/ resp.transportErr
    THEN [ok |-> FALSE, body |-> <<>>,
          err |-> Error("failed to fetch the page", "", 0, <<>>, "", "")]
    ELSE IF resp.status # 200
    THEN [ok |-> FALSE, body |-> <<>>,
          err |-> Error("failed to fetch the page: status code", "", resp.status,
                        <<>>, "", "")]
    ELSE [ok |-> TRUE, body |-> resp.body, err |-> NilError]

\* runClient accepting every 2xx status
runClientAccepting2xx(ctxDone, resp) ==
    IF ctxDone \/ resp.transportErr
    THEN [ok |-> FALSE, body |-> <<>>,
          err |-> Error("failed to fetch the page", "", 0, <<>>, "", "")]
    ELSE IF resp.status \notin 200..299
    THEN [ok |-> FALSE, body |-> <<>>,
          err |-> Error("failed to fetch the page: status code", "", resp.status,
                        resp.body, "", "")]
    ELSE [ok |-> TRUE, body |-> resp.body, err |-> NilError]

\* baasClient.runClient: the response, or the error of client.Do / of a
\* status other than http.StatusOK (a cancelled ctx makes client.Do fail)
runClient(ctxDone, resp) ==
    IF ctxDone \/ resp.transportErr
    THEN [ok |-> FALSE, body |-> <<>>,
          err |-> Error("failed to fetch the page", "", 0, <<>>, "", "")]
    ELSE IF resp.status # 200
    THEN [ok |-> FALSE, body |-> <<>>,
          err |-> Error("failed to fetch the page: status code", "", resp.status,
                        resp.body, "", "")]
    ELSE [ok |-> TRUE, body |-> resp.body, err |-> NilError]

\* strings.Contains(respBytes, "}\n{")
ContainsBoundary(body) ==
    \E i \in 1..(Len(body) - 2) : SubSeq(body, i, i + 2) = <<"}", "\n", "{">>

\* strings.Replace(respBytes, "}\n{", "},\n{", -1): every occurrence
RECURSIVE ReplaceAllBoundaries(_)
ReplaceAllBoundaries(body) ==
    IF Len(body) < 3 THEN body
    ELSE IF SubSeq(body, 1, 3) = <<"}", "\n", "{">>
    THEN <<"}", ",", "\n", "{">> \o ReplaceAllBoundaries(SubSeq(body, 4, Len(body)))
    ELSE <<Head(body)>> \o ReplaceAllBoundaries(Tail(body))

\* strings.Replace(respBytes, "}\n{", "},\n{", 1): the first occurrence only
ReplaceFirstBoundary(body) ==
    LET first == CHOOSE i \in 1..(Len(body) - 2) :
                    /\ SubSeq(body, i, i + 2) = <<"}", "\n", "{">>
                    /\ \A j \in 1..(i - 1) : SubSeq(body, j, j + 2) # <<"}", "\n", "{">>
    IN SubSeq(body, 1, first) \o <<",">> \o SubSeq(body, first + 1, Len(body))

\* the fix-up without the bracket wrapping
FixUpUnwrapped(body) ==
    IF ContainsBoundary(body) THEN ReplaceFirstBoundary(body) ELSE body

\* the fix-up and the bracket wrapping of Message
FixUp(body) ==
    <<"[">> \o (IF ContainsBoundary(body) THEN ReplaceFirstBoundary(body) ELSE body)
            \o <<"]">>

IsSpace(tok) == tok \in {"\n", " "}

NotSpace(tok) == ~IsSpace(tok)

\* json.Unmarshal(respBytes, &baasResponseObjects): the text must be a JSON
\* array of objects, "[" obj ("," obj)* "]" with optional whitespace between
\* tokens; anything else is an error
UnmarshalArray(text) ==
    LET toks  == SelectSeq(text, NotSpace)
        inner == SubSeq(toks, 2, Len(toks) - 1)
        n     == (Len(inner) + 1) \div 4
        valid == /\ Len(toks) >= 2
                 /\ toks[1] = "["
                 /\ toks[Len(toks)] = "]"
                 /\ \/ Len(inner) = 0
                    \/ /\ Len(inner) = 4 * n - 1
                       /\ \A k \in 0..(n - 1) :
                             /\ inner[4 * k + 1] = "{"
                             /\ inner[4 * k + 2] \in Objects
                             /\ inner[4 * k + 3] = "}"
                             /\ k < n - 1 => inner[4 * k + 4] = ","
    IN IF valid
       THEN [ok |-> TRUE,
             objects |-> [k \in 1..(IF Len(inner) = 0 THEN 0 ELSE n) |->
                            UnmarshalObject(inner[4 * k - 2])]]
       ELSE [ok |-> FALSE, objects |-> <<>>]

\* json.Unmarshal(line, &baasResponse): the text parsed directly as one
\* dto.BrowserMessageOut object
UnmarshalDirect(text) ==
    LET toks  == SelectSeq(text, NotSpace)
        valid == Len(toks) = 3 /\ toks[1] = "{" /\ toks[2] \in Objects /\ toks[3] = "}"
    IN IF valid THEN [ok |-> TRUE, object |-> <<UnmarshalObject(toks[2])>>]
       ELSE [ok |-> FALSE, object |-> <<>>]

\* lo.Find returning the last matching element
FindLast(objects, requestID) ==
    LET hits == {i \in 1..Len(objects) : objects[i].requestID = requestID}
    IN IF hits = {} THEN <<>>
       ELSE <<objects[CHOOSE i \in hits : \A j \in hits : j <= i]>>

\* lo.Find ignoring the predicate
FindAny(objects, requestID) ==
    IF Len(objects) = 0 THEN <<>> ELSE <<objects[1]>>

\* lo.Find(baasResponseObjects, msg.RequestID == msgOut.RequestID): the first
\* matching element (<<>> when found is false)
Find(objects, requestID) ==
    LET hits == {i \in 1..Len(objects) : objects[i].requestID = requestID}
    IN IF hits = {} THEN <<>>
       ELSE <<objects[CHOOSE i \in hits : \A j \in hits : i <= j]>>

\* baasClient.Message: the values of its locals and what it returns
\* (env is <<>> for a nil pointer)
Message(ctxDone, requestID, resp) ==
    LET got     == runClient(ctxDone, resp)
        text    == FixUp(got.body)
        parsed  == UnmarshalArray(text)
        found   == Find(parsed.objects, requestID)
        none    == <<>>
    IN IF ~got.ok
       THEN [respBytes |-> none, objects |-> none, found |-> none, env |-> none,
             err |-> [got.err EXCEPT !.message = "failed to make baas request"]]
       ELSE IF ~parsed.ok
       THEN [respBytes |-> text, objects |-> none, found |-> none, env |-> none,
             err |-> Error("failed to unmarshal baas response", "", 0, text, "", "")]
       ELSE IF found = <<>>
       THEN [respBytes |-> text, objects |-> parsed.objects, found |-> none, env |-> none,
             err |-> Error("failed to find message with the same RequestID",
                           requestID, 0, <<>>, "", "")]
       ELSE IF found[1].metaError # ""
       THEN [respBytes |-> text, objects |-> parsed.objects, found |-> found, env |-> none,
             err |-> Error("baas returned error", "", 0, <<>>, found[1].metaError,
                           found[1].requestUID)]
       ELSE [respBytes |-> text, objects |-> parsed.objects, found |-> found, env |-> found,
             err |-> NilError]

\* an output no builder has produced yet
Unset == <<>>

EncoderIdle ==
    /\ encName = <<>>
    /\ encArgs = <<>>
    /\ fixedOut = Unset
    /\ variadicOut = Unset
    /\ indexedOut = [method |-> "none", out |-> Unset]

(* One call of Message as a state machine: Init draws the generated        *)
(* request identifier and the service's response.                          *)

RequestIDs == {"a", "b"}

Separators == {<<"\n">>, <<",">>, <<>>}

\* "{" m1 "}" sep1 "{" m2 "}" ... for member lists ms and separators seps
RECURSIVE Concatenated(_, _)
Concatenated(ms, seps) ==
    IF Len(ms) = 0 THEN <<>>
    ELSE <<"{", Head(ms), "}">>
         \o (IF Len(ms) > 1 THEN Head(seps) \o Concatenated(Tail(ms), Tail(seps)) ELSE <<>>)

Bodies ==
    {<<>>, <<"oops">>, <<"[", "{", "a1", "}", "]">>}
      \cup UNION {{Concatenated(ms, seps) : ms \in [1..n -> Members],
                                            seps \in [1..(n - 1) -> Separators]} :
                  n \in 1..MaxObjects}

Statuses == {200, 201, 500}

Responses ==
    {[transportErr |-> TRUE, status |-> 0, body |-> <<>>]}
      \cup {[transportErr |-> FALSE, status |-> st, body |-> b] :
              st \in Statuses, b \in Bodies}

MessageInit ==
    /\ msgPc = "call"
    /\ msgCtxDone \in BOOLEAN
    /\ msgRequestID \in RequestIDs
    /\ msgResponse \in Responses
    /\ msgRespBytes = <<>>
    /\ msgObjects = <<>>
    /\ msgFound = <<>>
    /\ msgRet = [env |-> <<>>, err |-> NilError]

MessageIdle ==
    /\ msgPc = "idle"
    /\ msgCtxDone = FALSE
    /\ msgRequestID = ""
    /\ msgResponse = [transportErr |-> TRUE, status |-> 0, body |-> <<>>]
    /\ msgRespBytes = <<>>
    /\ msgObjects = <<>>
    /\ msgFound = <<>>
    /\ msgRet = [env |-> <<>>, err |-> NilError]

MessageCall ==
    /\ msgPc = "call"
    /\ LET r == Message(msgCtxDone, msgRequestID, msgResponse)
       IN /\ msgRespBytes' = r.respBytes
          /\ msgObjects' = r.objects
          /\ msgFound' = r.found
          /\ msgRet' = [env |-> r.env, err |-> r.err]
    /\ msgPc' = "done"
    /\ UNCHANGED <<msgCtxDone, msgRequestID, msgResponse, nonMsgVars>>

MessageNext == MessageCall

-----------------------------------------------------------------------------
(* The encoder as a state machine: Init draws one logical call (a name and *)
(* an `args ...any` list); each action applies one builder to it.          *)

Names     == {sFoo, sClick}
ArgValues == {sButton, sValue}
Indexes   == {12}
OptionValues == {WithTimeout(s2s), WithIncludeInvisible, WithoutTimeout}
OptionSlices == {<<WithTimeout(s2s), WithIncludeInvisible>>}

Items ==
    {StrItem(s) : s \in ArgValues} \cup {IntItem(n) : n \in Indexes}
      \cup {OptItem(o) : o \in OptionValues} \cup {OptsItem(os) : os \in OptionSlices}

ItemLists == UNION {[1..n -> Items] : n \in 0..MaxItems}

\* the ordered `opts ...ActionOption` list of the same logical call
RECURSIVE CallOptions(_)
CallOptions(args) ==
    IF Len(args) = 0 THEN <<>>
    ELSE (IF Head(args).type = "ActionOption" THEN <<Head(args).v>>
          ELSE IF Head(args).type = "[]ActionOption" THEN Head(args).v
          ELSE <<>>) \o CallOptions(Tail(args))

IsPositional(item) == item.type \in {"string", "int"}

\* the positional (non-option) elements of a call, in order
Positionals(args) == SelectSeq(args, IsPositional)

PositionalTypes(args) == [i \in 1..Len(Positionals(args)) |-> Positionals(args)[i].type]

EncoderInit ==
    /\ encName \in Names
    /\ encArgs \in ItemLists
    /\ fixedOut = Unset
    /\ variadicOut = Unset
    /\ indexedOut = [method |-> "none", out |-> Unset]

CallFunctionCall0 ==
    /\ PositionalTypes(encArgs) = <<>>
    /\ fixedOut' = functionCall0(encName, CallOptions(encArgs))
    /\ UNCHANGED <<encName, encArgs, variadicOut, indexedOut, nonEncVars>>

CallFunctionCall1 ==
    /\ PositionalTypes(encArgs) = <<"string">>
    /\ fixedOut' = functionCall1(encName, Positionals(encArgs)[1].v, CallOptions(encArgs))
    /\ UNCHANGED <<encName, encArgs, variadicOut, indexedOut, nonEncVars>>

CallFunctionCall2 ==
    /\ PositionalTypes(encArgs) = <<"string", "string">>
    /\ fixedOut' = functionCall2(encName, Positionals(encArgs)[1].v,
                                 Positionals(encArgs)[2].v, CallOptions(encArgs))
    /\ UNCHANGED <<encName, encArgs, variadicOut, indexedOut, nonEncVars>>

CallFunctionCallN ==
    /\ variadicOut' = functionCallN(encName, encArgs)
    /\ UNCHANGED <<encName, encArgs, fixedOut, indexedOut, nonEncVars>>

CallClickN ==
    /\ PositionalTypes(encArgs) = <<"string", "int">>
    /\ indexedOut' = [method |-> "ClickN",
                      out |-> ClickNProgram(Positionals(encArgs)[1].v,
                                            Positionals(encArgs)[2].v, CallOptions(encArgs))]
    /\ UNCHANGED <<encName, encArgs, fixedOut, variadicOut, nonEncVars>>

CallGetElementValueN ==
    /\ PositionalTypes(encArgs) = <<"string", "int">>
    /\ indexedOut' = [method |-> "GetElementValueN",
                      out |-> GetElementValueNProgram(Positionals(encArgs)[1].v,
                                            Positionals(encArgs)[2].v, CallOptions(encArgs))]
    /\ UNCHANGED <<encName, encArgs, fixedOut, variadicOut, nonEncVars>>

CallScrollIntoViewN ==
    /\ PositionalTypes(encArgs) = <<"string", "int">>
    /\ indexedOut' = [method |-> "ScrollIntoViewN",
                      out |-> ScrollIntoViewNProgram(Positionals(encArgs)[1].v,
                                            Positionals(encArgs)[2].v, CallOptions(encArgs))]
    /\ UNCHANGED <<encName, encArgs, fixedOut, variadicOut, nonEncVars>>

CallGetElementInnerTextN ==
    /\ PositionalTypes(encArgs) = <<"string", "int">>
    /\ indexedOut' = [method |-> "GetElementInnerTextN",
                      out |-> GetElementInnerTextNProgram(Positionals(encArgs)[1].v,
                                            Positionals(encArgs)[2].v, CallOptions(encArgs))]
    /\ UNCHANGED <<encName, encArgs, fixedOut, variadicOut, nonEncVars>>

CallSetValueN ==
    /\ PositionalTypes(encArgs) = <<"string", "int", "string">>
    /\ indexedOut' = [method |-> "SetValueN",
                      out |-> SetValueNProgram(Positionals(encArgs)[1].v,
                                            Positionals(encArgs)[2].v,
                                            Positionals(encArgs)[3].v, CallOptions(encArgs))]
    /\ UNCHANGED <<encName, encArgs, fixedOut, variadicOut, nonEncVars>>

EncoderNext ==
    \/ CallFunctionCall0
    \/ CallFunctionCall1
    \/ CallFunctionCall2
    \/ CallFunctionCallN
    \/ CallClickN
    \/ CallGetElementValueN
    \/ CallScrollIntoViewN
    \/ CallGetElementInnerTextN
    \/ CallSetValueN

-----------------------------------------------------------------------------
(* Session Controller (program.go: NewProgram, its goroutine, runProgram)  *)
(* and the start call of the Transport Client (baas.go: RunAsync).         *)

\* the first line of the start stream, and the envelope it decodes to
StartLines == {"s1", "s0", "sE", "s1E", "s!"}

UnmarshalStartLine(line) ==
    CASE line = "s1"  -> Envelope("s1", "", Absent, "", "job0", "")
      [] line = "s0"  -> Envelope("", "", Absent, "", "job0", "")
      [] line = "sE"  -> Envelope("", "", Absent, "", "job0", "start failed")
      [] line = "s1E" -> Envelope("s1", "", Absent, "", "job0", "start failed")
      [] line = "s!"  -> Envelope("", "", Absent, "boom", "job0", "")

\* what the start round trip yields; body holds the complete lines received
\* before the first read returns (none: the stream ended first)
StartResponses ==
    {[transportErr |-> TRUE, status |-> 0, body |-> <<>>]}
      \cup {[transportErr |-> FALSE, status |-> st, body |-> b] :
              st \in Statuses, b \in {<<>>, <<"oops">>} \cup {<<l>> : l \in StartLines}}

\* baasClient.RunAsync: (res, wait, err); res is <<>> for nil, wait tells
\* whether the drain closure is returned
RunAsync(ctxDone, resp) ==
    LET got == runClient(ctxDone, resp)
        env == UnmarshalStartLine(got.body[1])
    IN IF ~got.ok
       THEN [res |-> <<>>, wait |-> FALSE,
             err |-> [got.err EXCEPT !.message = "failed to make baas request"]]
       ELSE IF Len(got.body) = 0
       THEN [res |-> <<>>, wait |-> FALSE,
             err |-> Error("error reading response", "", 0, <<>>, "", "")]
       ELSE IF got.body[1] \notin StartLines
       THEN [res |-> <<>>, wait |-> FALSE,
             err |-> Error("failed to unmarshal baas response", "", 0, got.body, "", "")]
       ELSE IF env.metaError # ""
       THEN [res |-> <<>>, wait |-> FALSE,
             err |-> Error("baas returned error", "", 0, <<>>, env.metaError,
                           env.requestUID)]
       ELSE [res |-> <<env>>, wait |-> TRUE, err |-> NilError]

\* the rest of program.runProgram, given what client.Message returned
runProgram(r) ==
    IF r.err # NilError THEN [env |-> <<>>, err |-> r.err]
    ELSE IF r.env[1].error # ""
    THEN [env |-> <<>>, err |-> Error("error", "", 0, <<>>, r.env[1].error, "")]
    ELSE [env |-> r.env, err |-> NilError]

\* Err() of a context after it is cancelled with cause: the first cause stays
Cancelled(err, cause) == IF err = "nil" THEN cause ELSE err

\* what the service may answer to a command-message request: anything while
\* the remote session exists, only failures once it is gone
DispatchResponses ==
    IF remoteAlive
    THEN {[transportErr |-> TRUE, status |-> 0, body |-> <<>>],
          [transportErr |-> FALSE, status |-> 500, body |-> <<"oops">>]}
           \cup {[transportErr |-> FALSE, status |-> 200, body |-> <<"{", m, "}">>] :
                   m \in Members}
    ELSE {[transportErr |-> TRUE, status |-> 0, body |-> <<>>],
          [transportErr |-> FALSE, status |-> 500, body |-> <<"oops">>],
          [transportErr |-> FALSE, status |-> 200, body |-> <<"{", "a!", "}">>]}

\* the state of the session (spec section 4.4), read off the program
SessionState ==
    IF pErr # NilError THEN "Failed"
    ELSE IF bgPc \in {"deferred", "done"} \/ ctxErr # "nil" THEN "Terminated"
    ELSE IF sessionID # "" /\ bgPc \in {"invoke", "wait"} THEN "Ready"
    ELSE "WaitingForSessionID"

NoResult == [env |-> <<>>, err |-> NilError]

\* the maps given to NewProgram through WithSecrets and WithValues
GivenSecrets == [password |-> "hunter2"]

GivenValues == [user |-> "alice"]

\* the dto.BrowserMessageIn runProgram hands to client.Message (the request
\* identifier is filled in by Message)
BrowserMessageIn(sid, requestID, secrets, values) ==
    [sessionID |-> sid, requestID |-> requestID, secrets |-> secrets, values |-> values]

NoRequest == BrowserMessageIn("", "", <<>>, <<>>)

\* the goroutines of the caller that use the Program; nothing in the
\* Program keeps two of them from calling Facade methods at the same time
Callers == {"c1", "c2"}

SessionInit ==
    /\ parentErr \in {"nil", "Canceled"}
    /\ ctxErr = parentErr
    /\ cancelledAt = IF parentErr = "nil" THEN "never" ELSE "beforeID"
    /\ sessionID = ""
    /\ pErr = NilError
    /\ bgPc = "RunAsync"
    /\ bgRes = <<>>
    /\ bgWait = FALSE
    /\ bgErr = NilError
    /\ drainCalls = 0
    /\ startPosts = 0
    /\ idAssignments = 0
    /\ linesRead = 0
    /\ closes = 0
    /\ drainEnd = "none"
    /\ pSecrets = GivenSecrets
    /\ pValues = GivenValues
    /\ respBody = "none"
    /\ linesLeft = 0
    /\ remoteAlive = FALSE
    /\ mainPc = "barrier"
    /\ newRet = [prog |-> FALSE, err |-> "nil", sid |-> ""]
    /\ dispPc = [c \in Callers |-> "idle"]
    /\ dispRequestID = [c \in Callers |-> ""]
    /\ dispIssuedIn = [c \in Callers |-> "none"]
    /\ dispRequest = [c \in Callers |-> NoRequest]
    /\ dispPosts = [c \in Callers |-> 0]
    /\ dispMsg = [c \in Callers |-> NoResult]
    /\ dispRet = [c \in Callers |-> NoResult]
    /\ dispCount = 0

SessionIdle ==
    /\ parentErr = "nil"
    /\ ctxErr = "nil"
    /\ cancelledAt = "never"
    /\ sessionID = ""
    /\ pErr = NilError
    /\ bgPc = "idle"
    /\ bgRes = <<>>
    /\ bgWait = FALSE
    /\ bgErr = NilError
    /\ drainCalls = 0
    /\ startPosts = 0
    /\ idAssignments = 0
    /\ linesRead = 0
    /\ closes = 0
    /\ drainEnd = "none"
    /\ pSecrets = GivenSecrets
    /\ pValues = GivenValues
    /\ respBody = "none"
    /\ linesLeft = 0
    /\ remoteAlive = FALSE
    /\ mainPc = "idle"
    /\ newRet = [prog |-> FALSE, err |-> "nil", sid |-> ""]
    /\ dispPc = [c \in Callers |-> "idle"]
    /\ dispRequestID = [c \in Callers |-> ""]
    /\ dispIssuedIn = [c \in Callers |-> "none"]
    /\ dispRequest = [c \in Callers |-> NoRequest]
    /\ dispPosts = [c \in Callers |-> 0]
    /\ dispMsg = [c \in Callers |-> NoResult]
    /\ dispRet = [c \in Callers |-> NoResult]
    /\ dispCount = 0

(* ---- the goroutine started by NewProgram ---- *)

\* res, wait, err := client.RunAsync(ctx, ...)
BgRunAsync ==
    /\ bgPc = "RunAsync"
    /\ \E resp \in StartResponses, lines \in 0..MaxLines :
          LET r == RunAsync(ctxErr # "nil", resp)
              answered == ctxErr = "nil" /\ ~resp.transportErr
          IN /\ bgRes' = r.res
             /\ bgWait' = r.wait
             /\ bgErr' = r.err
             /\ respBody' = IF answered THEN "open" ELSE "none"
             /\ remoteAlive' = (answered /\ resp.status = 200 /\ resp.body = <<"s1">>)
             /\ linesLeft' = IF r.wait THEN lines ELSE 0
             /\ startPosts' = startPosts + (IF ctxErr = "nil" THEN 1 ELSE 0)
             /\ linesRead' = IF answered /\ resp.status = 200 /\ Len(resp.body) > 0
                             THEN 1 ELSE 0
    /\ bgPc' = "check"
    /\ UNCHANGED <<parentErr, ctxErr, cancelledAt, sessionID, pErr, drainCalls, mainPc,
                   newRet, dispVars, cfgVars, idAssignments, closes, drainEnd, nonSesVars>>

\* if err != nil { p.exitWithError(err) ...: the assignment p.err = err
BgExitWithError ==
    /\ bgPc = "check"
    /\ bgErr # NilError
    /\ pErr' = bgErr
    /\ bgPc' = "exitCancel"
    /\ UNCHANGED <<parentErr, ctxErr, cancelledAt, sessionID, bgRes, bgWait, bgErr,
                   drainCalls, respBody, linesLeft, remoteAlive, mainPc, newRet, dispVars,
                   cfgVars, startPosts, idAssignments, linesRead, closes, drainEnd, nonSesVars>>

\* if res.Error != "" { p.exitWithError(errors.Errorf("%s", res.Error)) ...
BgExitWithResError ==
    /\ bgPc = "check"
    /\ bgErr = NilError
    /\ bgRes[1].error # ""
    /\ pErr' = Error("error", "", 0, <<>>, bgRes[1].error, "")
    /\ bgPc' = "exitCancel"
    /\ UNCHANGED <<parentErr, ctxErr, cancelledAt, sessionID, bgRes, bgWait, bgErr,
                   drainCalls, respBody, linesLeft, remoteAlive, mainPc, newRet, dispVars,
                   cfgVars, startPosts, idAssignments, linesRead, closes, drainEnd, nonSesVars>>

\* exitWithError returning without p.cancel()
BgExitWithoutCancel ==
    /\ bgPc = "exitCancel"
    /\ bgPc' = "deferred"
    /\ UNCHANGED <<parentErr, ctxErr, cancelledAt, sessionID, pErr, bgRes, bgWait, bgErr,
                   drainCalls, respBody, linesLeft, remoteAlive, mainPc, newRet, dispVars,
                   cfgVars, startPosts, idAssignments, linesRead, closes, drainEnd, nonSesVars>>

\* exitWithError: p.cancel(), then return
BgExitCancel ==
    /\ bgPc = "exitCancel"
    /\ ctxErr' = Cancelled(ctxErr, "Canceled")
    /\ bgPc' = "deferred"
    /\ UNCHANGED <<parentErr, cancelledAt, sessionID, pErr, bgRes, bgWait, bgErr,
                   drainCalls, respBody, linesLeft, remoteAlive, mainPc, newRet, dispVars,
                   cfgVars, startPosts, idAssignments, linesRead, closes, drainEnd, nonSesVars>>

\* p.sessionID = res.SessionID placed before the check of res.Error
BgAssignSessionIDUnchecked ==
    /\ bgPc = "check"
    /\ bgErr = NilError
    /\ sessionID' = bgRes[1].sessionID
    /\ idAssignments' = idAssignments + 1
    /\ bgPc' = "invoke"
    /\ UNCHANGED <<parentErr, ctxErr, cancelledAt, pErr, bgRes, bgWait, bgErr, drainCalls,
                   respBody, linesLeft, remoteAlive, mainPc, newRet, dispVars, cfgVars,
                   startPosts, linesRead, closes, drainEnd, nonSesVars>>

\* p.sessionID = res.SessionID
BgAssignSessionID ==
    /\ bgPc = "check"
    /\ bgErr = NilError
    /\ bgRes[1].error = ""
    /\ sessionID' = bgRes[1].sessionID
    /\ idAssignments' = idAssignments + 1
    /\ bgPc' = "invoke"
    /\ UNCHANGED <<parentErr, ctxErr, cancelledAt, pErr, bgRes, bgWait, bgErr, drainCalls,
                   respBody, linesLeft, remoteAlive, mainPc, newRet, dispVars, cfgVars,
                   startPosts, linesRead, closes, drainEnd, nonSesVars>>

\* wait(): the drain closure is invoked
BgInvokeDrain ==
    /\ bgPc = "invoke"
    /\ drainCalls' = drainCalls + 1
    /\ bgPc' = "wait"
    /\ UNCHANGED <<parentErr, ctxErr, cancelledAt, sessionID, pErr, bgRes, bgWait, bgErr,
                   respBody, linesLeft, remoteAlive, mainPc, newRet, dispVars, cfgVars,
                   startPosts, idAssignments, linesRead, closes, drainEnd, nonSesVars>>

\* wait(): reader.ReadString returns a further line, which is discarded
BgDrainLine ==
    /\ bgPc = "wait"
    /\ linesLeft > 0
    /\ linesLeft' = linesLeft - 1
    /\ linesRead' = linesRead + 1
    /\ UNCHANGED <<parentErr, ctxErr, cancelledAt, sessionID, pErr, bgPc, bgRes, bgWait,
                   bgErr, drainCalls, respBody, remoteAlive, mainPc, newRet, dispVars,
                   cfgVars, startPosts, idAssignments, closes, drainEnd, nonSesVars>>

\* the drain closure returning at the end of the stream without
\* resp.Body.Close()
BgDrainEOFWithoutClose ==
    /\ bgPc = "wait"
    /\ linesLeft = 0
    /\ remoteAlive' = FALSE
    /\ drainEnd' = "EOF"
    /\ bgPc' = "deferred"
    /\ UNCHANGED <<respBody, closes, parentErr, ctxErr, cancelledAt, sessionID, pErr,
                   bgRes, bgWait, bgErr, drainCalls, linesLeft, mainPc, newRet, dispVars, cfgVars, startPosts,
                   idAssignments, linesRead, nonSesVars>>

\* wait(): the remote session ended and closed the stream; the read returns
\* io.EOF, the loop breaks and resp.Body.Close() runs
BgDrainEOF ==
    /\ bgPc = "wait"
    /\ linesLeft = 0
    /\ remoteAlive' = FALSE
    /\ respBody' = "closed"
    /\ closes' = closes + 1
    /\ drainEnd' = "EOF"
    /\ bgPc' = "deferred"
    /\ UNCHANGED <<parentErr, ctxErr, cancelledAt, sessionID, pErr, bgRes, bgWait, bgErr,
                   drainCalls, linesLeft, mainPc, newRet, dispVars, cfgVars, startPosts,
                   idAssignments, linesRead, nonSesVars>>

\* wait(): the read fails on the client's side (ctx cancelled, or the
\* http.Client Timeout, which also bounds reading the body, elapsed); the
\* loop breaks and resp.Body.Close() runs
BgDrainReadError ==
    /\ bgPc = "wait"
    /\ respBody' = "closed"
    /\ closes' = closes + 1
    /\ drainEnd' = "error"
    /\ bgPc' = "deferred"
    /\ UNCHANGED <<parentErr, ctxErr, cancelledAt, sessionID, pErr, bgRes, bgWait, bgErr,
                   drainCalls, linesLeft, remoteAlive, mainPc, newRet, dispVars, cfgVars,
                   startPosts, idAssignments, linesRead, nonSesVars>>

\* defer cancel()
BgDeferredCancel ==
    /\ bgPc = "deferred"
    /\ ctxErr' = Cancelled(ctxErr, "Canceled")
    /\ bgPc' = "done"
    /\ UNCHANGED <<parentErr, cancelledAt, sessionID, pErr, bgRes, bgWait, bgErr,
                   drainCalls, respBody, linesLeft, remoteAlive, mainPc, newRet, dispVars,
                   cfgVars, startPosts, idAssignments, linesRead, closes, drainEnd, nonSesVars>>

(* ---- the NewProgram call: the ready barrier ---- *)

\* what an unsynchronised read of p.sessionID may observe: the value last
\* written, or still the empty string
ObservableSessionID == {sessionID, ""}

\* for p.sessionID == "" { ... } reporter.Report("Got sessionID: " ...)
BarrierCheck ==
    /\ mainPc = "barrier"
    /\ \E seen \in ObservableSessionID :
          mainPc' = IF seen = "" THEN "select" ELSE "gotID"
    /\ UNCHANGED <<parentErr, ctxErr, cancelledAt, sessionID, pErr, bgPc, bgRes, bgWait,
                   bgErr, drainCalls, respBody, linesLeft, remoteAlive, newRet, dispVars,
                   cfgVars, startPosts, idAssignments, linesRead, closes, drainEnd, nonSesVars>>

\* the select breaking out of the loop when ctx is done
BarrierSelectBreaks ==
    /\ mainPc = "select"
    /\ mainPc' = IF ctxErr # "nil" THEN "gotID" ELSE "barrier"
    /\ UNCHANGED <<parentErr, ctxErr, cancelledAt, sessionID, pErr, bgPc, bgRes, bgWait,
                   bgErr, drainCalls, respBody, linesLeft, remoteAlive, newRet, dispVars,
                   cfgVars, startPosts, idAssignments, linesRead, closes, drainEnd, nonSesVars>>

\* select { case <-ctx.Done(): return nil, ctx.Err()
\*          default: reporter.Report("Waiting for sessionID..."); time.Sleep(...) }
BarrierSelect ==
    /\ mainPc = "select"
    /\ IF ctxErr # "nil"
       THEN /\ mainPc' = "returned"
            /\ newRet' = [prog |-> FALSE, err |-> ctxErr, sid |-> sessionID]
       ELSE /\ mainPc' = "barrier"
            /\ UNCHANGED newRet
    /\ UNCHANGED <<parentErr, ctxErr, cancelledAt, sessionID, pErr, bgPc, bgRes, bgWait,
                   bgErr, drainCalls, respBody, linesLeft, remoteAlive, dispVars, cfgVars,
                   startPosts, idAssignments, linesRead, closes, drainEnd, nonSesVars>>

\* return p, nil
ReturnProgram ==
    /\ mainPc = "gotID"
    /\ mainPc' = "returned"
    /\ newRet' = [prog |-> TRUE, err |-> "nil", sid |-> sessionID]
    /\ UNCHANGED <<parentErr, ctxErr, cancelledAt, sessionID, pErr, bgPc, bgRes, bgWait,
                   bgErr, drainCalls, respBody, linesLeft, remoteAlive, dispVars, cfgVars,
                   startPosts, idAssignments, linesRead, closes, drainEnd, nonSesVars>>

(* ---- the caller ---- *)

\* the caller cancels the context it passed, or its deadline expires
CallerEndsContext ==
    /\ parentErr = "nil"
    /\ \E cause \in {"Canceled", "DeadlineExceeded"} :
          /\ parentErr' = cause
          /\ ctxErr' = Cancelled(ctxErr, cause)
    /\ cancelledAt' = IF sessionID = "" THEN "beforeID" ELSE "afterID"
    /\ UNCHANGED <<sessionID, pErr, bgPc, bgRes, bgWait, bgErr, drainCalls, respBody,
                   linesLeft, remoteAlive, mainPc, newRet, dispVars, cfgVars, startPosts,
                   idAssignments, linesRead, closes, drainEnd, nonSesVars>>

\* runProgram building the request without the session identifier and with
\* the two maps exchanged
DispatchStartWithoutSession(c) ==
    /\ mainPc = "returned"
    /\ newRet.prog
    /\ dispPc[c] \in {"idle", "done"}
    /\ dispCount < MaxDispatches
    /\ dispPc' = [dispPc EXCEPT ![c] = "inflight"]
    /\ \E id \in RequestIDs :
          /\ dispRequestID' = [dispRequestID EXCEPT ![c] = id]
          /\ dispRequest' = [dispRequest EXCEPT
                               ![c] = BrowserMessageIn("", id, pValues, pSecrets)]
    /\ dispPosts' = [dispPosts EXCEPT ![c] = IF ctxErr = "nil" THEN 1 ELSE 0]
    /\ dispIssuedIn' = [dispIssuedIn EXCEPT ![c] = SessionState]
    /\ dispMsg' = [dispMsg EXCEPT ![c] = NoResult]
    /\ dispRet' = [dispRet EXCEPT ![c] = NoResult]
    /\ dispCount' = dispCount + 1
    /\ UNCHANGED <<parentErr, ctxErr, cancelledAt, sessionID, pErr, bgPc, bgRes, bgWait,
                   bgErr, drainCalls, respBody, linesLeft, remoteAlive, mainPc, newRet,
                   cfgVars, startPosts, idAssignments, linesRead, closes, drainEnd, nonSesVars>>

\* a Facade method called by caller c enters runProgram and Message sends
\* the request
DispatchStart(c) ==
    /\ mainPc = "returned"
    /\ newRet.prog
    /\ dispPc[c] \in {"idle", "done"}
    /\ dispCount < MaxDispatches
    /\ dispPc' = [dispPc EXCEPT ![c] = "inflight"]
    /\ \E id \in RequestIDs :
          /\ dispRequestID' = [dispRequestID EXCEPT ![c] = id]
          /\ dispRequest' = [dispRequest EXCEPT
                               ![c] = BrowserMessageIn(sessionID, id, pSecrets, pValues)]
    /\ dispPosts' = [dispPosts EXCEPT ![c] = IF ctxErr = "nil" THEN 1 ELSE 0]
    /\ dispIssuedIn' = [dispIssuedIn EXCEPT ![c] = SessionState]
    /\ dispMsg' = [dispMsg EXCEPT ![c] = NoResult]
    /\ dispRet' = [dispRet EXCEPT ![c] = NoResult]
    /\ dispCount' = dispCount + 1
    /\ UNCHANGED <<parentErr, ctxErr, cancelledAt, sessionID, pErr, bgPc, bgRes, bgWait,
                   bgErr, drainCalls, respBody, linesLeft, remoteAlive, mainPc, newRet,
                   cfgVars, startPosts, idAssignments, linesRead, closes, drainEnd, nonSesVars>>

\* runProgram sending the request again when client.Message failed
DispatchFinishRetrying(c) ==
    /\ dispPc[c] = "inflight"
    /\ \E resp \in DispatchResponses :
          LET r == Message(ctxErr # "nil", dispRequestID[c], resp)
          IN /\ dispMsg' = [dispMsg EXCEPT ![c] = [env |-> r.env, err |-> r.err]]
             /\ dispRet' = [dispRet EXCEPT ![c] = runProgram(r)]
             /\ IF r.err # NilError /\ dispPosts[c] < 2
                THEN /\ dispPosts' = [dispPosts EXCEPT ![c] = @ + 1]
                     /\ UNCHANGED dispPc
                ELSE /\ dispPc' = [dispPc EXCEPT ![c] = "done"]
                     /\ UNCHANGED dispPosts
    /\ UNCHANGED <<parentErr, ctxErr, cancelledAt, sessionID, pErr, bgPc, bgRes, bgWait,
                   bgErr, drainCalls, respBody, linesLeft, remoteAlive, mainPc, newRet,
                   dispRequestID, dispIssuedIn, dispCount, cfgVars, startPosts,
                   idAssignments, linesRead, closes, drainEnd, dispRequest, nonSesVars>>

\* client.Message returns to caller c's runProgram, which returns its result
DispatchFinish(c) ==
    /\ dispPc[c] = "inflight"
    /\ \E resp \in DispatchResponses :
          LET r == Message(ctxErr # "nil", dispRequestID[c], resp)
          IN /\ dispMsg' = [dispMsg EXCEPT ![c] = [env |-> r.env, err |-> r.err]]
             /\ dispRet' = [dispRet EXCEPT ![c] = runProgram(r)]
    /\ dispPc' = [dispPc EXCEPT ![c] = "done"]
    /\ UNCHANGED <<parentErr, ctxErr, cancelledAt, sessionID, pErr, bgPc, bgRes, bgWait,
                   bgErr, drainCalls, respBody, linesLeft, remoteAlive, mainPc, newRet,
                   dispRequestID, dispIssuedIn, dispCount, cfgVars, startPosts,
                   idAssignments, linesRead, closes, drainEnd, dispRequest, dispPosts, nonSesVars>>

SessionNext ==
    \/ BgRunAsync
    \/ BgExitWithError
    \/ BgExitWithResError
    \/ BgExitCancel
    \/ BgAssignSessionID
    \/ BgInvokeDrain
    \/ BgDrainLine
    \/ BgDrainEOF
    \/ BgDrainReadError
    \/ BgDeferredCancel
    \/ BarrierCheck
    \/ BarrierSelect
    \/ ReturnProgram
    \/ CallerEndsContext
    \/ \E c \in Callers : DispatchStart(c)
    \/ \E c \in Callers : DispatchFinish(c)

-----------------------------------------------------------------------------
(* Facade methods that return a typed result (program.go): each runs one   *)
(* command through runProgram and converts the envelope's value.           *)

\* the command names of the typed-result Facade methods
sGetInnerText == <<"g", "e", "t", "I", "n", "n", "e", "r", "T", "e", "x", "t">>

sGetSecret == <<"g", "e", "t", "S", "e", "c", "r", "e", "t">>

sGetValue == <<"g", "e", "t", "V", "a", "l", "u", "e">>

sCountElements == <<"c", "o", "u", "n", "t", "E", "l", "e", "m", "e", "n", "t", "s">>

sIsElementPresent == <<"i", "s", "E", "l", "e", "m", "e", "n", "t", "P", "r", "e", "s", "e", "n", "t">>

sFindVisibleElements == <<"f", "i", "n", "d", "V", "i", "s", "i", "b", "l", "e", "E", "l", "e", "m", "e", "n", "t", "s">>

sLlmText == <<"l", "l", "m", "T", "e", "x", "t">>

sText == <<"t", "e", "x", "t">>

sWaitFileDownloadStarted == <<"w", "a", "i", "t", "F", "i", "l", "e", "D", "o", "w", "n", "l", "o", "a", "d", "S", "t", "a", "r", "t", "e", "d">>

sWaitFileDownload == <<"w", "a", "i", "t", "F", "i", "l", "e", "D", "o", "w", "n", "l", "o", "a", "d">>

sTakeScreenshot == <<"t", "a", "k", "e", "S", "c", "r", "e", "e", "n", "s", "h", "o", "t">>

sNavigateStatus == <<"n", "a", "v", "i", "g", "a", "t", "e", "S", "t", "a", "t", "u", "s">>

sGetURL == <<"g", "e", "t", "U", "R", "L">>

\* the pieces of the format string of ExecuteAndDownloadFile, between its
\* four %s verbs
fmtBeforeProgram ==
    <<"\n", "\t", "\t", "\t">>

fmtBeforeStarted ==
    <<"\n", "\t", "\t", "\t", "i", "f", " ", "(", "!">>

fmtBeforeDuration ==
    <<")", " ", "{", "\n", "\t", "\t", "\t", "\t", "t", "h", "r", "o", "w", " ", "'",
      "F", "i", "l", "e", " ", "d", "o", "w", "n", "l", "o", "a", "d", " ", "d", "i",
      "d", " ", "n", "o", "t", " ", "s", "t", "a", "r", "t", " ", "w", "i", "t", "h",
      "i", "n", " ">>

fmtBeforeDownload ==
    <<"'", ";", "\n", "\t", "\t", "\t", "}", "\n", "\t", "\t", "\t">>

sDuration1 == <<"1", "s">>

sDuration5 == <<"5", "s">>

sUrl == <<"h", "t", "t", "p", ":", "/", "/", "x">>

sScript == <<"c", "l", "i", "c", "k", "(", "'", "#", "d", "l", "'", ")">>
\* program.ExecuteAndDownloadFile: the one command string it composes
DownloadProgram(program, waitStarted, waitDownloaded, opts) ==
    fmtBeforeProgram \o program
      \o fmtBeforeStarted \o functionCall1(sWaitFileDownloadStarted, waitStarted, opts)
      \o fmtBeforeDuration \o waitStarted
      \o fmtBeforeDownload \o functionCall1(sWaitFileDownload, waitDownloaded, opts)

\* Execute appending the flags of its options to the program it is given
CommandWithExecuteOptions(method, in) ==
    CASE method = "GetElementValueN" ->
           GetElementValueNProgram(in.arg1, in.index, in.opts)
      [] method = "GetElementInnerTextN" ->
           GetElementInnerTextNProgram(in.arg1, in.index, in.opts)
      [] method = "GetInnerText" -> functionCall1(sGetInnerText, in.arg1, in.opts)
      [] method = "GetSecret" -> functionCall1(sGetSecret, in.arg1, in.opts)
      [] method = "GetValue" -> functionCall1(sGetValue, in.arg1, in.opts)
      [] method = "CountElements" -> functionCall1(sCountElements, in.arg1, in.opts)
      [] method = "IsElementPresent" -> functionCall1(sIsElementPresent, in.arg1, in.opts)
      [] method = "FindVisibleElements" ->
           functionCall2(sFindVisibleElements, Join(in.elements, <<",">>), in.arg2, in.opts)
      [] method = "LlmText" -> functionCall1(sLlmText, in.arg1, in.opts)
      [] method = "Text" -> functionCall1(sText, in.arg1, in.opts)
      [] method = "WaitFileDownloadStarted" ->
           functionCall1(sWaitFileDownloadStarted, in.arg1, in.opts)
      [] method = "WaitFileDownload" -> functionCall1(sWaitFileDownload, in.arg1, in.opts)
      [] method = "NavigateStatus" -> functionCall1(sNavigateStatus, in.arg1, in.opts)
      [] method = "GetURL" -> functionCall0(sGetURL, in.opts)
      [] method = "Execute" -> in.program \o addArgs(in.opts)
      [] method = "TakeScreenshot" -> functionCall1(sTakeScreenshot, in.arg1, in.opts)
      [] method = "ExecuteAndDownloadFile" ->
           DownloadProgram(in.program, in.arg1, in.arg2, in.opts)
      [] method = "DownloadFile" -> DownloadProgram(<<>>, in.arg1, in.arg2, in.opts)

\* the command string each Facade method hands to runProgram
Command(method, in) ==
    CASE method = "GetElementValueN" ->
           GetElementValueNProgram(in.arg1, in.index, in.opts)
      [] method = "GetElementInnerTextN" ->
           GetElementInnerTextNProgram(in.arg1, in.index, in.opts)
      [] method = "GetInnerText" -> functionCall1(sGetInnerText, in.arg1, in.opts)
      [] method = "GetSecret" -> functionCall1(sGetSecret, in.arg1, in.opts)
      [] method = "GetValue" -> functionCall1(sGetValue, in.arg1, in.opts)
      [] method = "CountElements" -> functionCall1(sCountElements, in.arg1, in.opts)
      [] method = "IsElementPresent" -> functionCall1(sIsElementPresent, in.arg1, in.opts)
      [] method = "FindVisibleElements" ->
           functionCall2(sFindVisibleElements, Join(in.elements, <<",">>), in.arg2, in.opts)
      [] method = "LlmText" -> functionCall1(sLlmText, in.arg1, in.opts)
      [] method = "Text" -> functionCall1(sText, in.arg1, in.opts)
      [] method = "WaitFileDownloadStarted" ->
           functionCall1(sWaitFileDownloadStarted, in.arg1, in.opts)
      [] method = "WaitFileDownload" -> functionCall1(sWaitFileDownload, in.arg1, in.opts)
      [] method = "NavigateStatus" -> functionCall1(sNavigateStatus, in.arg1, in.opts)
      [] method = "GetURL" -> functionCall0(sGetURL, in.opts)
      [] method = "Execute" -> in.program
      [] method = "TakeScreenshot" -> functionCall1(sTakeScreenshot, in.arg1, in.opts)
      [] method = "ExecuteAndDownloadFile" ->
           DownloadProgram(in.program, in.arg1, in.arg2, in.opts)
      [] method = "DownloadFile" -> DownloadProgram(<<>>, in.arg1, in.arg2, in.opts)

\* the methods that return the bytes of a screenshot
ScreenshotMethods == {"TakeScreenshot"}

\* the composite methods that save the downloaded file
FileMethods == {"ExecuteAndDownloadFile", "DownloadFile"}

\* methods ending in `return res.Value.(string), nil`
StringMethods ==
    {"GetElementValueN", "GetElementInnerTextN", "GetInnerText", "GetSecret", "GetValue",
     "FindVisibleElements", "LlmText", "Text", "GetURL"}

\* methods ending in `return res.Value.(bool), nil`
BoolMethods == {"IsElementPresent", "WaitFileDownloadStarted", "WaitFileDownload"}

\* `return int(res.Value.(float64)), nil`
Float64Methods == {"CountElements"}

\* `status, ok := res.Value.(float64); if !ok { return 0, errors.Errorf(...) }`
CheckedFloat64Methods == {"NavigateStatus"}

\* `return res.Value, nil`
AnyMethods == {"Execute"}

TypedMethods ==
    StringMethods \cup BoolMethods \cup Float64Methods \cup CheckedFloat64Methods
      \cup AnyMethods

\* the dynamic type a method's conversion asks for ("any": none)
ExpectedType(method) ==
    IF method \in StringMethods THEN "string"
    ELSE IF method \in BoolMethods THEN "bool"
    ELSE IF method \in AnyMethods THEN "any"
    ELSE "float64"

\* the zero value a method returns next to an error
ZeroValue(method) ==
    IF method \in StringMethods \cup AnyMethods THEN String("")
    ELSE IF method \in BoolMethods THEN Bool("false")
    ELSE Float64("0")

\* how a method ends
Returned(value, err) == [panicked |-> FALSE, value |-> value, err |-> err]

\* v.(T) with a value of another dynamic type (nil included): a run-time panic
Panicked == [panicked |-> TRUE, value |-> Absent, err |-> NilError]

\* the type assertion with the comma-ok form, as NavigateStatus has it
FacadeResultChecked(method, r) ==
    IF r.err # NilError THEN Returned(ZeroValue(method), r.err)
    ELSE IF ExpectedType(method) \in {"any", r.env[1].value.type}
    THEN Returned(r.env[1].value, NilError)
    ELSE Returned(ZeroValue(method),
                  Error("Failed to convert", "", 0, <<>>, r.env[1].value.val, ""))

\* the part of a Facade method after runProgram returned r
FacadeResult(method, r) ==
    IF r.err # NilError THEN Returned(ZeroValue(method), r.err)
    ELSE IF method \in CheckedFloat64Methods THEN FacadeResultChecked(method, r)
    ELSE IF ExpectedType(method) \in {"any", r.env[1].value.type}
    THEN Returned(r.env[1].value, NilError)
    ELSE Panicked

\* a file not written
NoFile == ""

\* how os.WriteFile may end: the file written, or an error with no file or
\* with a truncated one left behind
WriteOutcomes == {"written", "failed", "failed, truncated"}

\* the part of ExecuteAndDownloadFile after runProgram returned r
FileResult(r, write) ==
    IF r.err # NilError THEN Returned(Absent, r.err)
    ELSE IF r.env[1].downloadedFile = ""
    THEN Returned(Absent, Error("downloaded file size is zero", "", 0, <<>>, "", ""))
    ELSE IF write # "written"
    THEN Returned(Absent, Error("os.WriteFile", "", 0, <<>>, "", ""))
    ELSE Returned([type |-> "[]byte", val |-> r.env[1].downloadedFile], NilError)

\* res.Screenshots[name]: the bytes stored under name, none when absent
Screenshot(env, name) ==
    IF \E e \in env.screenshots : e.name = name
    THEN (CHOOSE e \in env.screenshots : e.name = name).bytes
    ELSE ""

\* TakeScreenshot returning res.Screenshots[name] whatever its length
ScreenshotResultUnchecked(r, name) ==
    IF r.err # NilError THEN Returned(Absent, r.err)
    ELSE Returned([type |-> "[]byte", val |-> Screenshot(r.env[1], name)], NilError)

\* the part of TakeScreenshot after runProgram returned r
ScreenshotResult(r, name) ==
    IF r.err # NilError THEN Returned(Absent, r.err)
    ELSE IF Screenshot(r.env[1], name) = ""
    THEN Returned(Absent, Error("screenshot wasn't returned", "", 0, name, "", ""))
    ELSE Returned([type |-> "[]byte", val |-> Screenshot(r.env[1], name)], NilError)

\* what is in the file named fileName after the method returned
FileAfter(r, write) ==
    IF r.err # NilError \/ r.env[1].downloadedFile = "" \/ write = "failed" THEN NoFile
    ELSE IF write = "written" THEN r.env[1].downloadedFile
    ELSE "truncated"

(* ---- the Timeout of the http.Client ---- *)

\* time.Second*30, the timeout NewProgram gives NewClient, in ms
DefaultTimeout == 30000

DigitChars == {"0", "1", "2", "3", "4", "5", "6", "7", "8", "9"}

IsDigitChar(c) == c \in DigitChars

\* the characters a unit is read over: up to the next digit or point
UnitChars == {"a", "h", "m", "n", "o", "s", "u", "x", "-", "+"}

DigitValue(c) == CHOOSE d \in 0..9 : Digit(d) = c

\* the number of leading characters of s that are in chars
LeadingCount(s, chars) ==
    CHOOSE n \in 0..Len(s) :
       /\ \A i \in 1..n : s[i] \in chars
       /\ n = Len(s) \/ s[n + 1] \notin chars

\* the value of a sequence of digits
RECURSIVE DecimalValue(_)
DecimalValue(ds) ==
    IF ds = <<>> THEN 0
    ELSE 10 * DecimalValue(SubSeq(ds, 1, Len(ds) - 1)) + DigitValue(ds[Len(ds)])

RECURSIVE Pow10(_)
Pow10(n) == IF n = 0 THEN 1 ELSE 10 * Pow10(n - 1)

\* time's unitMap, in ms; 0 stands for a unit it does not hold (the units
\* below one millisecond are left out: no input here uses them)
UnitMs(u) ==
    CASE u = <<"m", "s">> -> 1
      [] u = <<"s">> -> 1000
      [] u = <<"m">> -> 60000
      [] u = <<"h">> -> 3600000
      [] OTHER -> 0

NoDuration == [ok |-> FALSE, ms |-> 0]

\* the loop of time.ParseDuration over the components `digits[.digits]unit`
RECURSIVE ParseComponents(_, _)
ParseComponents(s, acc) ==
    IF s = <<>> THEN [ok |-> TRUE, ms |-> acc]
    ELSE LET nPre    == LeadingCount(s, DigitChars)
             pre     == SubSeq(s, 1, nPre)
             afterI  == SubSeq(s, nPre + 1, Len(s))
             hasDot  == afterI # <<>> /\ afterI[1] = "."
             afterD  == IF hasDot THEN Tail(afterI) ELSE afterI
             nPost   == IF hasDot THEN LeadingCount(afterD, DigitChars) ELSE 0
             post    == SubSeq(afterD, 1, nPost)
             afterF  == SubSeq(afterD, nPost + 1, Len(afterD))
             nUnit   == LeadingCount(afterF, UnitChars)
             unit    == SubSeq(afterF, 1, nUnit)
             rest    == SubSeq(afterF, nUnit + 1, Len(afterF))
         IN IF ~(IsDigitChar(s[1]) \/ s[1] = ".") THEN NoDuration
            ELSE IF nPre = 0 /\ nPost = 0 THEN NoDuration
            ELSE IF nUnit = 0 THEN NoDuration
            ELSE IF UnitMs(unit) = 0 THEN NoDuration
            ELSE ParseComponents(rest,
                                 acc + DecimalValue(pre) * UnitMs(unit)
                                     + (DecimalValue(post) * UnitMs(unit)) \div Pow10(nPost))

\* time.ParseDuration(s): [ok, ms]
ParseDuration(s) ==
    LET signed == s # <<>> /\ s[1] \in {"-", "+"}
        neg    == s # <<>> /\ s[1] = "-"
        body   == IF signed THEN Tail(s) ELSE s
        d      == ParseComponents(body, 0)
    IN IF s = <<>> THEN NoDuration
       ELSE IF body = <<"0">> THEN [ok |-> TRUE, ms |-> 0]
       ELSE IF body = <<>> THEN NoDuration
       ELSE IF d.ok /\ neg THEN [ok |-> TRUE, ms |-> 0 - d.ms]
       ELSE d

\* runClient giving the http.Client no timeout when the string does not parse
HttpTimeoutZeroOnError(clientTimeout, timeout) ==
    LET dur == ParseDuration(timeout)
    IN IF dur.ok THEN dur.ms ELSE 0

\* runClient: timeoutDuration, the Timeout of the http.Client of one call
HttpTimeout(clientTimeout, timeout) ==
    LET dur == ParseDuration(timeout)
    IN IF ~dur.ok THEN clientTimeout ELSE dur.ms

s30s   == <<"3", "0", "s">>
s1m30s == <<"1", "m", "3", "0", "s">>
s500ms == <<"5", "0", "0", "m", "s">>
s1p5s  == <<"1", ".", "5", "s">>
sNeg1s == <<"-", "1", "s">>
sFive  == <<"5">>
sSoon  == <<"s", "o", "o", "n">>
s1s2   == <<"1", "s", "2">>

\* the values of Config.MessageTimeout
TimeoutStrings == {<<>>, <<"0">>, s30s, s1m30s, s500ms, s1p5s, sNeg1s, sFive, sSoon, s1s2}

\* the secrets maps a program may be constructed with
SecretMaps == {GivenSecrets, [password |-> "swordfish"]}

\* one message passed to Reporter.Report: the format string and its operands
ReporterMessage(text, prog, value, error, err) ==
    [text |-> text, prog |-> prog, value |-> value, error |-> error, err |-> err]

\* runProgram printing the whole request it sends
ReportsWithRequest(method, in, request, msg, write) ==
    <<[text |-> "Executing %v...", prog |-> Command(method, in),
       secrets |-> request.secrets],
      ReporterMessage("Got result: %v (%s), %v",
                      <<>>,
                      IF msg.env = <<>> THEN Absent ELSE msg.env[1].value,
                      IF msg.env = <<>> THEN "" ELSE msg.env[1].error,
                      msg.err)>>

\* the messages runProgram and the file methods pass to the Reporter during
\* one Facade call that sends request and gets msg back from client.Message
Reports(method, in, request, msg, write) ==
    LET r == runProgram(msg)
    IN <<ReporterMessage("Executing %q...", Command(method, in), Absent, "", NilError),
         ReporterMessage("Got result: %v (%s), %v",
                         <<>>,
                         IF msg.env = <<>> THEN Absent ELSE msg.env[1].value,
                         IF msg.env = <<>> THEN "" ELSE msg.env[1].error,
                         msg.err)>>
       \o IF method \notin FileMethods \/ r.err # NilError
          THEN <<>>
          ELSE IF r.env[1].downloadedFile = "" THEN <<>>
          ELSE IF write = "written"
          THEN <<ReporterMessage("%q saved to ", <<>>, Absent, "", NilError)>>
          ELSE <<ReporterMessage("failed to save file %s: %q", <<>>, Absent, "",
                                 Error("os.WriteFile", "", 0, <<>>, "", ""))>>

\* the arguments of a Facade call
FacadeInputs ==
    {[program |-> sScript, arg1 |-> a, arg2 |-> sDuration5, elements |-> <<sButton, sForm>>,
      index |-> i, opts |-> o] :
        a \in {sButton, sDuration1}, i \in Indexes, o \in {<<>>, <<WithTimeout(s2s)>>}}

NoInput ==
    [program |-> <<>>, arg1 |-> <<>>, arg2 |-> <<>>, elements |-> <<>>, index |-> 0,
     opts |-> <<>>]

\* what the service may answer to the one request of a Facade call
FacadeResponses ==
    {[transportErr |-> TRUE, status |-> 0, body |-> <<>>],
     [transportErr |-> FALSE, status |-> 500, body |-> <<"oops">>]}
      \cup {[transportErr |-> FALSE, status |-> 200, body |-> <<"{", m, "}">>] :
              m \in Objects}

NoOutcome == Returned(Absent, NilError)

FacadeInit ==
    /\ facPc = "call"
    /\ facMethod \in TypedMethods \cup FileMethods \cup ScreenshotMethods
    /\ facIn \in FacadeInputs
    /\ facCommands = <<>>
    /\ facFile = NoFile
    /\ facRequestID \in RequestIDs
    /\ facResponse \in FacadeResponses
    /\ facRes = NoResult
    /\ facOut = NoOutcome
    /\ facSecrets \in SecretMaps
    /\ facWrite \in (IF facMethod \in FileMethods THEN WriteOutcomes ELSE {"written"})
    /\ facReports = <<>>
    /\ facTimeout \in TimeoutStrings
    /\ facHttpTimeout = "none"

FacadeIdle ==
    /\ facPc = "idle"
    /\ facMethod = "none"
    /\ facIn = NoInput
    /\ facCommands = <<>>
    /\ facFile = NoFile
    /\ facRequestID = ""
    /\ facResponse = [transportErr |-> TRUE, status |-> 0, body |-> <<>>]
    /\ facRes = NoResult
    /\ facOut = NoOutcome
    /\ facSecrets = GivenSecrets
    /\ facWrite = "written"
    /\ facReports = <<>>
    /\ facTimeout = <<>>
    /\ facHttpTimeout = "none"

\* a Facade method that sends the parts of a composite operation as
\* separate commands, one round trip each
FacadeCallInSteps ==
    /\ facPc = "call"
    /\ LET msg == Message(FALSE, facRequestID, facResponse)
           r   == runProgram(msg)
       IN /\ facCommands' =
               IF facMethod \in FileMethods
               THEN <<facIn.program,
                      functionCall1(sWaitFileDownloadStarted, facIn.arg1, facIn.opts),
                      functionCall1(sWaitFileDownload, facIn.arg2, facIn.opts)>>
               ELSE <<Command(facMethod, facIn)>>
          /\ facRes' = r
          /\ facOut' = IF facMethod \in FileMethods THEN FileResult(r, facWrite)
                       ELSE IF facMethod \in ScreenshotMethods
                       THEN ScreenshotResult(r, facIn.arg1)
                       ELSE FacadeResult(facMethod, r)
          /\ facFile' = IF facMethod \in FileMethods THEN FileAfter(r, facWrite)
                        ELSE NoFile
          /\ facReports' = Reports(facMethod, facIn,
                                   BrowserMessageIn("s1", facRequestID, facSecrets,
                                                    GivenValues),
                                   msg, facWrite)
          /\ facHttpTimeout' = HttpTimeout(DefaultTimeout, facTimeout)
    /\ facPc' = "done"
    /\ UNCHANGED <<facMethod, facIn, facRequestID, facResponse, facSecrets, facWrite,
                   facTimeout, nonFacVars>>

\* the whole Facade method: the command string, runProgram (and in it
\* client.Message), then the conversion of res.Value or the saving of
\* res.DownloadedFile
FacadeCall ==
    /\ facPc = "call"
    /\ LET msg == Message(FALSE, facRequestID, facResponse)
           r   == runProgram(msg)
       IN /\ facCommands' = Append(facCommands, Command(facMethod, facIn))
          /\ facRes' = r
          /\ facOut' = IF facMethod \in FileMethods THEN FileResult(r, facWrite)
                       ELSE IF facMethod \in ScreenshotMethods
                       THEN ScreenshotResult(r, facIn.arg1)
                       ELSE FacadeResult(facMethod, r)
          /\ facFile' = IF facMethod \in FileMethods THEN FileAfter(r, facWrite)
                        ELSE NoFile
          /\ facReports' = Reports(facMethod, facIn,
                                   BrowserMessageIn("s1", facRequestID, facSecrets,
                                                    GivenValues),
                                   msg, facWrite)
          /\ facHttpTimeout' = HttpTimeout(DefaultTimeout, facTimeout)
    /\ facPc' = "done"
    /\ UNCHANGED <<facMethod, facIn, facRequestID, facResponse, facSecrets, facWrite,
                   facTimeout, nonFacVars>>

FacadeNext == FacadeCall

-----------------------------------------------------------------------------
(* The flags of an option list: the loop of addArgs over the closures of   *)
(* the ActionOption constructors, before the flags are joined.             *)

MaxOptions == 2

sB  == <<"b">>
sI  == <<"i">>
sBI == <<"b", ",", "i">>

\* the lists WithAllowTags and WithAllowAttrs are called with
NameLists == {<<>>, <<sB>>, <<sB, sI>>, <<sBI>>}

\* every option kind, with the parameters a caller may give it
AllOptions ==
    {WithoutTimeout, WithSecretArgs, WithIncludeInvisible, WithTimeout(s2s),
     WithSelector(sForm), WithIframe(sForm)}
      \cup {WithAllowTags(l) : l \in NameLists}
      \cup {WithAllowAttrs(l) : l \in NameLists}

OptionLists == UNION {[1..n -> AllOptions] : n \in 0..MaxOptions}

OptionsInit ==
    /\ optPc = "encode"
    /\ optList \in OptionLists
    /\ optFlags = <<>>

OptionsIdle ==
    /\ optPc = "idle"
    /\ optList = <<>>
    /\ optFlags = <<>>

\* the loop `for _, opt := range opts { addArgs = opt(addArgs) }`
EncodeOptions ==
    /\ optPc = "encode"
    /\ optFlags' = ApplyAll(optList, <<>>)
    /\ optPc' = "done"
    /\ UNCHANGED <<optList, nonOptVars>>

OptionsNext == EncodeOptions

-----------------------------------------------------------------------------
(* Specifications: one per part; the other parts stay idle.                *)

InitEncoder == EncoderInit /\ MessageIdle /\ SessionIdle /\ FacadeIdle /\ OptionsIdle

SpecEncoder == InitEncoder /\ [][EncoderNext]_vars

InitMessage == EncoderIdle /\ MessageInit /\ SessionIdle /\ FacadeIdle /\ OptionsIdle

SpecMessage == InitMessage /\ [][MessageNext]_vars

Init == EncoderIdle /\ MessageIdle /\ SessionInit /\ FacadeIdle /\ OptionsIdle

Next == SessionNext

Spec == Init /\ [][Next]_vars

InitFacade == EncoderIdle /\ MessageIdle /\ SessionIdle /\ FacadeInit /\ OptionsIdle

SpecFacade == InitFacade /\ [][FacadeNext]_vars

InitOptions == EncoderIdle /\ MessageIdle /\ SessionIdle /\ FacadeIdle /\ OptionsInit

SpecOptions == InitOptions /\ [][OptionsNext]_vars

\* the drain loop's read failing because the context is done
BgDrainObservesCancel == ctxErr # "nil" /\ BgDrainReadError

\* Scheduling: the goroutine and the NewProgram call keep running while they
\* have a step to take, an HTTP round trip ends (the client has a Timeout),
\* and the read of the start stream observes a cancelled context.
Fairness ==
    /\ WF_vars(BgRunAsync)
    /\ WF_vars(BgExitWithError)
    /\ WF_vars(BgExitWithResError)
    /\ WF_vars(BgExitCancel)
    /\ WF_vars(BgAssignSessionID)
    /\ WF_vars(BgInvokeDrain)
    /\ WF_vars(BgDrainObservesCancel)
    /\ WF_vars(BgDeferredCancel)
    /\ WF_vars(BarrierCheck)
    /\ WF_vars(BarrierSelect)
    /\ WF_vars(ReturnProgram)
    /\ \A c \in Callers : WF_vars(DispatchFinish(c))

FairSpec == Spec /\ Fairness

-----------------------------------------------------------------------------
(* Reading an encoded command back: used to state the encoder's claims.    *)

\* the contents of the single-quoted literals of s, in order
Literals(s) ==
    LET IsQuote(i) == s[i] = "'"
        q == Positions(s, IsQuote)
    IN [k \in 1..(Len(q) \div 2) |-> SubSeq(s, q[2 * k - 1] + 1, q[2 * k] - 1)]

\* s split at the commas that stand outside quotes (no items for an empty s)
RawItems(s) ==
    LET QuotesBefore(i) == Cardinality({j \in 1..(i - 1) : s[j] = "'"})
        IsSeparator(i)  == s[i] = "," /\ QuotesBefore(i) % 2 = 0
        c == Positions(s, IsSeparator)
        From(k) == IF k = 1 THEN 1 ELSE c[k - 1] + 1
        To(k)   == IF k = Len(c) + 1 THEN Len(s) ELSE c[k] - 1
    IN IF Len(s) = 0 THEN <<>>
       ELSE [k \in 1..(Len(c) + 1) |-> SubSeq(s, From(k), To(k))]

RECURSIVE TrimLeft(_)
TrimLeft(s) == IF Len(s) > 0 /\ Head(s) = " " THEN TrimLeft(Tail(s)) ELSE s

RECURSIVE TrimRight(_)
TrimRight(s) ==
    IF Len(s) > 0 /\ s[Len(s)] = " " THEN TrimRight(SubSeq(s, 1, Len(s) - 1)) ELSE s

Trim(s) == TrimRight(TrimLeft(s))

IsPrefix(p, s) == Len(p) <= Len(s) /\ SubSeq(s, 1, Len(p)) = p

\* the text between "name(" and the closing ")"
ArgumentList(name, out) == SubSeq(out, Len(name) + 2, Len(out) - 1)

\* the text between the first "(" and the closing ")"
InParens(out) ==
    LET open == CHOOSE i \in 1..Len(out) : out[i] = "(" /\ \A j \in 1..(i - 1) : out[j] # "("
    IN SubSeq(out, open + 1, Len(out) - 1)

IsQuotedLiteral(t) ==
    /\ Len(t) >= 2
    /\ t[1] = "'"
    /\ t[Len(t)] = "'"
    /\ \A i \in 2..(Len(t) - 1) : t[i] # "'"

\* name(item1, item2, ...) with every item one quoted literal
WellShaped(name, out) ==
    /\ IsPrefix(name \o <<"(">>, out)
    /\ out[Len(out)] = ")"
    /\ LET items == RawItems(ArgumentList(name, out))
       IN \A i \in 1..Len(items) : IsQuotedLiteral(Trim(items[i]))

IsNumeric(s) ==
    Len(s) > 0 /\ \A i \in 1..Len(s) : s[i] \in {"0", "1", "2", "3", "4", "5", "6", "7", "8", "9"}

NotNumeric(s) == ~IsNumeric(s)

\* the flag each supplied option stands for, in the caller's order
ExpectedFlags(args) ==
    [i \in 1..Len(CallOptions(args)) |-> ApplyOption(CallOptions(args)[i], <<>>)[1]]

IsStringItem(item) == item.type = "string"

\* the string positional arguments of the call, in the caller's order
ExpectedStrings(args) ==
    [i \in 1..Len(SelectSeq(args, IsStringItem)) |-> SelectSeq(args, IsStringItem)[i].v]

\* out's literals are the positional strings followed by exactly the flags
FlagsTrail(out, args) ==
    LET lits  == Literals(out)
        flags == ExpectedFlags(args)
        n     == Len(flags)
    IN /\ Len(lits) >= n
       /\ SubSeq(lits, Len(lits) - n + 1, Len(lits)) = flags
       /\ SelectSeq(SubSeq(lits, 1, Len(lits) - n), NotNumeric) = ExpectedStrings(args)
       /\ out[Len(out)] = ")"
       /\ n > 0 => out[Len(out) - 1] = "'"

-----------------------------------------------------------------------------
(* Claims about the command encoder, checked under SpecEncoder.            *)

\* C5: for the same name, positional strings and ordered options, the
\* fixed-arity builder and functionCallN produce identical command strings.
C5_FixedEqualsVariadic ==
    (fixedOut # Unset /\ variadicOut # Unset) => fixedOut = variadicOut

sClickButtonTimeoutInvisible ==
    <<"c", "l", "i", "c", "k", "(", "'", ".", "b", "u", "t", "t", "o", "n", "'", ",", " ",
      "'", "t", "i", "m", "e", "o", "u", "t", ":", "2", "s", "'", ",", " ",
      "'", "i", "n", "c", "l", "u", "d", "e", "I", "n", "v", "i", "s", "i", "b", "l", "e", "'", ")">>

\* C6: click with '.button' and [WithTimeout("2s"), WithIncludeInvisible()]
\* encodes to exactly click('.button', 'timeout:2s', 'includeInvisible').
C6_ClickExample ==
    (/\ fixedOut # Unset
     /\ encName = sClick
     /\ encArgs = <<StrItem(sButton), OptItem(WithTimeout(s2s)), OptItem(WithIncludeInvisible)>>)
    => fixedOut = sClickButtonTimeoutInvisible

\* C7: every builder's statement is name(item, ...) with each item one quoted
\* literal: no leading comma, no trailing comma, no empty item.
C7_WellShaped ==
    /\ fixedOut # Unset => WellShaped(encName, fixedOut)
    /\ variadicOut # Unset => WellShaped(encName, variadicOut)

\* C8: the flags come after all positional arguments, one per supplied
\* option, in the caller's order, duplicates kept, also when functionCallN
\* gets options interleaved with positional arguments.
C8_FlagsTrailInOrder ==
    /\ fixedOut # Unset => FlagsTrail(fixedOut, encArgs)
    /\ variadicOut # Unset => FlagsTrail(variadicOut, encArgs)
    /\ indexedOut.method # "none" => FlagsTrail(indexedOut.out, encArgs)

\* C8 witness: functionCallN was given an option before a positional string
\* and the same option twice.
C8_Witness ==
    /\ variadicOut # Unset
    /\ \E i, j \in 1..Len(encArgs) :
          i < j /\ encArgs[i].type = "ActionOption" /\ encArgs[j].type = "string"
    /\ \E i, j \in 1..Len(CallOptions(encArgs)) :
          i < j /\ CallOptions(encArgs)[i] = CallOptions(encArgs)[j]

\* C9: a numeric positional argument is rendered unquoted, by the indexed
\* Facade methods and by functionCallN given a non-string scalar.
C9_NumericUnquoted ==
    /\ indexedOut.method # "none" =>
          LET items == RawItems(InParens(indexedOut.out))
          IN Len(items) >= 2 /\ Trim(items[2]) = Itoa(Positionals(encArgs)[2].v)
    /\ variadicOut # Unset =>
          LET items == RawItems(InParens(variadicOut))
          IN \A i \in 1..Len(Positionals(encArgs)) :
                Positionals(encArgs)[i].type = "int" =>
                   Len(items) >= i /\ Trim(items[i]) = Itoa(Positionals(encArgs)[i].v)

-----------------------------------------------------------------------------
(* Claims about Message, checked under SpecMessage.                        *)

\* the round trip delivered a body with status 200 to Message
Delivered ==
    ~msgCtxDone /\ ~msgResponse.transportErr /\ msgResponse.status = 200

\* C1: Message returns an envelope only if its requestID equals the one just
\* sent; when no parsed envelope carries it, the call fails with the
\* correlation error naming the requested identifier and returns no envelope.
C1_OnlyMatchingEnvelope ==
    msgPc = "done" =>
       /\ msgRet.env # <<>> =>
             /\ msgRet.env[1].requestID = msgRequestID
             /\ msgRet.err = NilError
       /\ (/\ Delivered
           /\ UnmarshalArray(msgRespBytes).ok
           /\ \A i \in 1..Len(msgObjects) : msgObjects[i].requestID # msgRequestID)
          => /\ msgRet.env = <<>>
             /\ msgRet.err.kind = "failed to find message with the same RequestID"
             /\ msgRet.err.requestID = msgRequestID

\* C1 witness: envelopes were parsed, none carries the requested identifier,
\* and the call returned the correlation error.
C1_Witness ==
    /\ msgPc = "done"
    /\ Len(msgObjects) = 2
    /\ msgRet.env = <<>>
    /\ msgRet.err.kind = "failed to find message with the same RequestID"

\* C10: a body of two objects separated by one newline parses to the
\* two-element list in body order, and a request whose identifier the second
\* object carries resolves to the second object's value.
C10_SecondObjectResolved ==
    \A m1, m2 \in Members :
       (/\ msgPc = "done"
        /\ Delivered
        /\ msgResponse.body = <<"{", m1, "}", "\n", "{", m2, "}">>
        /\ UnmarshalObject(m2).requestID = msgRequestID)
       => /\ msgObjects = <<UnmarshalObject(m1), UnmarshalObject(m2)>>
          /\ Len(msgFound) = 1
          /\ msgFound[1].value = UnmarshalObject(m2).value

\* C2: NewProgram returns a Program, with a nil error, only when the session
\* identifier is non-empty; when it returns while the identifier is still
\* unassigned it returns no Program and a non-nil error; it never returns
\* neither.
C2_ProgramOnlyWithSessionID ==
    mainPc = "returned"
       => /\ newRet.prog => (newRet.err = "nil" /\ newRet.sid # "")
          /\ newRet.sid = "" => (~newRet.prog /\ newRet.err # "nil")
          /\ ~newRet.prog => newRet.err # "nil"

\* C2 witness: NewProgram returned while no identifier was assigned, without
\* a Program and with the context's error.
C2_Witness ==
    /\ mainPc = "returned"
    /\ newRet.sid = ""
    /\ ~newRet.prog
    /\ newRet.err \in {"Canceled", "DeadlineExceeded"}

\* C3: a Dispatch issued when the session is not Ready (Failed, Terminated,
\* or not yet Ready) returns an error and no success envelope.
C3_DispatchOutsideReadyFails ==
    \A c \in Callers :
       (dispPc[c] = "done" /\ dispIssuedIn[c] # "Ready")
          => (dispRet[c].env = <<>> /\ dispRet[c].err # NilError)

\* C4: when the context passed to NewProgram ended before a session
\* identifier was assigned, NewProgram's return is no Program and the
\* context's cancellation error.
C4_CancelledBeforeIDReturnsError ==
    (mainPc = "returned" /\ cancelledAt = "beforeID")
       => (~newRet.prog /\ newRet.err \in {"Canceled", "DeadlineExceeded"})

\* the positions at which "}\n{" occurs in a body
BoundaryPositions(body) ==
    {i \in 1..(Len(body) - 2) : SubSeq(body, i, i + 2) = <<"}", "\n", "{">>}

\* what Message parsed, without the brackets it wrapped the body in
Unwrapped == SubSeq(msgRespBytes, 2, Len(msgRespBytes) - 1)

\* C11: for a body with at least one "}\n{" boundary the fix-up inserts
\* exactly one comma, after the "}" of the first boundary; every other token,
\* every later boundary included, is left as it was.
C11_CommaAtFirstBoundaryOnly ==
    (msgPc = "done" /\ Delivered /\ BoundaryPositions(msgResponse.body) # {})
       => LET body  == msgResponse.body
              first == CHOOSE i \in BoundaryPositions(body) :
                          \A j \in BoundaryPositions(body) : i <= j
          IN /\ Len(Unwrapped) = Len(body) + 1
             /\ Unwrapped[first + 1] = ","
             /\ SubSeq(Unwrapped, 1, first) = SubSeq(body, 1, first)
             /\ SubSeq(Unwrapped, first + 2, Len(Unwrapped))
                  = SubSeq(body, first + 1, Len(body))

\* C11 witness: a body with two boundaries went through the fix-up and the
\* second boundary is still there.
C11_Witness ==
    /\ msgPc = "done"
    /\ Delivered
    /\ Cardinality(BoundaryPositions(msgResponse.body)) = 2
    /\ Cardinality(BoundaryPositions(Unwrapped)) = 1

\* C12: a body without a "}\n{" boundary reaches the parser unaltered
\* (only wrapped in brackets), and when the body parses directly as one
\* envelope, Message's parse is the single-element list holding that envelope.
C12_NoBoundaryUnaltered ==
    (msgPc = "done" /\ Delivered /\ BoundaryPositions(msgResponse.body) = {})
       => /\ msgRespBytes = <<"[">> \o msgResponse.body \o <<"]">>
          /\ UnmarshalDirect(msgResponse.body).ok
                => msgObjects = UnmarshalDirect(msgResponse.body).object

\* C12 witness: a single-object body was parsed to a one-element list.
C12_Witness ==
    /\ msgPc = "done"
    /\ Delivered
    /\ BoundaryPositions(msgResponse.body) = {}
    /\ UnmarshalDirect(msgResponse.body).ok
    /\ Len(msgObjects) = 1

\* C13: when the envelope matched by request identifier has a non-empty
\* meta.error, Message returns no envelope and an error carrying that
\* meta.error text and the envelope's request UID, and runProgram hands that
\* error to the Facade method unchanged.
C13_MetaErrorSurfaced ==
    (msgPc = "done" /\ msgFound # <<>> /\ msgFound[1].metaError # "")
       => /\ msgRet.env = <<>>
          /\ msgRet.err.kind = "baas returned error"
          /\ msgRet.err.message = msgFound[1].metaError
          /\ msgRet.err.requestUID = msgFound[1].requestUID
          /\ runProgram(msgRet) = [env |-> <<>>, err |-> msgRet.err]

\* C13 witness: the matched envelope carried meta.error "boom" and the call
\* failed.
C13_Witness ==
    /\ msgPc = "done"
    /\ msgFound # <<>>
    /\ msgFound[1].metaError = "boom"
    /\ msgRet.env = <<>>
    /\ msgRet.err.requestUID = "job3"

\* C14: when the matched envelope's own error field is non-empty (meta.error
\* empty), runProgram returns no envelope and an error that carries the
\* remote error message together with the envelope's request UID.
C14_EnvelopeErrorCarriesUID ==
    \A c \in Callers :
       (/\ dispPc[c] = "done"
        /\ dispMsg[c].env # <<>>
        /\ dispMsg[c].env[1].error # "")
          => /\ dispRet[c].env = <<>>
             /\ dispRet[c].err.message = dispMsg[c].env[1].error
             /\ dispRet[c].err.requestUID = dispMsg[c].env[1].requestUID

\* the session start has failed: RunAsync returned an error, or the first
\* envelope carries a non-empty error
StartFailed ==
    /\ bgPc # "RunAsync"
    /\ \/ bgErr # NilError
       \/ (IF bgRes = <<>> THEN FALSE ELSE bgRes[1].error # "")

\* C16: when the session start has failed, no session identifier is ever
\* assigned, and once the background task has left exitWithError the
\* program holds that error and its context is cancelled.
C16_StartFailureStoredAndCancelled ==
    StartFailed
       => /\ sessionID = ""
          /\ bgPc \in {"exitCancel", "deferred", "done"}
                => /\ pErr # NilError
                   /\ bgErr # NilError => pErr = bgErr
                   /\ bgErr = NilError => pErr.message = bgRes[1].error
          /\ bgPc \in {"deferred", "done"} => ctxErr # "nil"

\* C16 witness: the first envelope carried an error; the task has returned
\* from exitWithError with the error stored and the context cancelled by it.
C16_Witness ==
    /\ StartFailed
    /\ bgPc = "deferred"
    /\ bgErr = NilError
    /\ pErr.message = "start failed"
    /\ parentErr = "nil"
    /\ ctxErr = "Canceled"
    /\ sessionID = ""

\* C17: when the session start has failed and the caller did not end the
\* context, the error NewProgram returns identifies the start failure: it is
\* not merely the context's cancellation error.
C17_StartFailureReturned ==
    (mainPc = "returned" /\ pErr # NilError /\ parentErr = "nil")
       => newRet.err \notin {"nil", "Canceled", "DeadlineExceeded"}

\* C18: when RunAsync returned a drain closure, the background task has
\* invoked it exactly once by the time it exits.
C18_DrainInvokedOnce ==
    (bgPc = "done" /\ bgWait) => drainCalls = 1

\* C19: the background task's write of p.sessionID and the barrier loop's
\* read of it are never both about to happen: some synchronization keeps the
\* two accesses apart.
C19_SessionIDAccessSynchronized ==
    ~(/\ bgPc = "check"
      /\ bgErr = NilError
      /\ bgRes[1].error = ""
      /\ mainPc = "barrier")

\* C20: at most one caller is inside client.Message at any time.
C20_OneMessageInFlight ==
    Cardinality({c \in Callers : dispPc[c] = "inflight"}) <= 1

\* C15: a Facade method that extracts a typed result returns an error, and
\* does not panic, when runProgram succeeded with an envelope whose value is
\* absent or of another dynamic type than the method expects.
C15_WrongTypeIsAnError ==
    (/\ facPc = "done"
     /\ facMethod \in TypedMethods
     /\ facRes.err = NilError
     /\ ExpectedType(facMethod) \notin {"any", facRes.env[1].value.type})
       => (~facOut.panicked /\ facOut.err # NilError)

\* C21: nothing is retried: NewProgram sends at most one POST to the
\* session-start endpoint and each Dispatch at most one POST to the
\* command-message endpoint, whatever failure occurs.
C21_NoRetry ==
    /\ startPosts <= 1
    /\ \A c \in Callers : dispPosts[c] <= 1

\* C21 witness: the session started with one POST, and a Dispatch has failed
\* after its one POST.
C21_Witness ==
    /\ startPosts = 1
    /\ \E c \in Callers :
          /\ dispPc[c] = "done"
          /\ dispRet[c].err # NilError
          /\ dispPosts[c] = 1

\* C22: once the program's context is cancelled, a NewProgram call still
\* waiting in the ready barrier for an identifier eventually returns a
\* cancellation error, and the background task eventually leaves its drain
\* loop and exits.
C22_CancelUnblocksBarrierAndDrain ==
    /\ (ctxErr # "nil" /\ mainPc \in {"barrier", "select"} /\ sessionID = "")
          ~> (mainPc = "returned" /\ ~newRet.prog /\ newRet.err # "nil")
    /\ (ctxErr # "nil") ~> (bgPc = "done")

\* sub occurs in s at position i
OccursAt(sub, s, i) ==
    /\ i >= 1
    /\ i + Len(sub) - 1 <= Len(s)
    /\ \A n \in 1..Len(sub) : s[i + n - 1] = sub[n]

\* C23: a Facade operation performs exactly one Dispatch; the command of
\* ExecuteAndDownloadFile and DownloadFile holds, in this order, the script,
\* the wait-for-download-started check and the wait-for-download call.
C23_CompositeIsOneDispatch ==
    facPc = "done"
       => /\ Len(facCommands) = 1
          /\ facMethod \in FileMethods
                => LET cmd      == facCommands[1]
                       script   == IF facMethod = "DownloadFile" THEN <<>>
                                   ELSE facIn.program
                       started  == functionCall1(sWaitFileDownloadStarted, facIn.arg1,
                                                 facIn.opts)
                       download == functionCall1(sWaitFileDownload, facIn.arg2,
                                                 facIn.opts)
                       k        == Len(cmd) - Len(download) + 1
                   IN /\ OccursAt(download, cmd, k)
                      /\ \E j \in 1..k :
                            /\ OccursAt(<<"i", "f", " ", "(", "!">> \o started, cmd, j - 5)
                            /\ j + Len(started) <= k
                            /\ \E i \in 1..j :
                                  /\ OccursAt(script, cmd, i)
                                  /\ i + Len(script) <= j

\* C23 witness: ExecuteAndDownloadFile has run its one command and saved the
\* downloaded file.
C23_Witness ==
    /\ facPc = "done"
    /\ facMethod = "ExecuteAndDownloadFile"
    /\ Len(facCommands) = 1
    /\ facOut.err = NilError
    /\ facFile = "%PDF"

\* C24: every command-message request carries the Program's assigned,
\* non-empty sessionID and exactly the secrets and values maps given at
\* construction; no Dispatch step changes sessionID, secrets or values.
C24_RequestCarriesProgramState ==
    /\ [](\A c \in Callers :
             dispPc[c] # "idle"
                => /\ sessionID # ""
                   /\ dispRequest[c].sessionID = sessionID
                   /\ dispRequest[c].secrets = GivenSecrets
                   /\ dispRequest[c].values = GivenValues)
    /\ [][(\E c \in Callers : dispPc'[c] # dispPc[c])
             => UNCHANGED <<sessionID, pSecrets, pValues>>]_vars

\* C24 witness: a Dispatch has completed whose request carried the assigned
\* sessionID and the maps of construction.
C24_Witness ==
    \E c \in Callers :
       /\ dispPc[c] = "done"
       /\ dispPosts[c] = 1
       /\ dispRequest[c].sessionID = sessionID
       /\ sessionID # ""
       /\ dispRequest[c].secrets = GivenSecrets
       /\ dispRequest[c].values = GivenValues

\* C25: the messages passed to the Reporter do not depend on the secrets
\* map: a run with any other secrets map and the same arguments, response
\* and file-system outcome reports exactly the messages this run reported.
C25_ReportsIndependentOfSecrets ==
    facPc = "done"
       => \A secrets \in SecretMaps :
             Reports(facMethod, facIn,
                     BrowserMessageIn("s1", facRequestID, secrets, GivenValues),
                     Message(FALSE, facRequestID, facResponse), facWrite)
                = facReports

\* C25 witness: GetSecret ran on a program built with the second secrets
\* map and reported the command and the value the service returned.
C25_Witness ==
    /\ facPc = "done"
    /\ facMethod = "GetSecret"
    /\ facSecrets # GivenSecrets
    /\ Len(facReports) = 2
    /\ facReports[2].err = NilError
    /\ facReports[2].value.type = "string"

\* C26: option encoding is lossless: no other option list builds the flags
\* this option list built.
C26_OptionEncodingLossless ==
    optPc = "done"
       => \A other \in OptionLists :
             ApplyAll(other, <<>>) = optFlags => other = optList

\* C27: Program.Error() reports the runtime errors of the program: once a
\* Facade call has failed, Error() returns a non-nil error.
C27_ErrorReportsFailedCall ==
    \A c \in Callers :
       (dispPc[c] = "done" /\ dispRet[c].err # NilError) => pErr # NilError

\* C28: the session identifier is assigned at most once, by the background
\* task, after RunAsync succeeded with an empty envelope error and before
\* drain is invoked; once non-empty it never changes; the controller cancels
\* the context only on start failure or after drain has returned.
C28_SessionIDAssignedOnce ==
    /\ [](idAssignments <= 1)
    /\ [](drainCalls > 0 => idAssignments = 1)
    /\ [][/\ (sessionID' # sessionID \/ idAssignments' # idAssignments)
                => /\ bgPc = "check" /\ bgPc' = "invoke"
                   /\ startPosts = 1
                   /\ bgErr = NilError
                   /\ bgRes[1].error = ""
                   /\ sessionID' = bgRes[1].sessionID
                   /\ drainCalls = 0
          /\ sessionID # "" => sessionID' = sessionID
          /\ (bgPc \in {"exitCancel", "deferred"} /\ bgPc' # bgPc)
                => \/ pErr # NilError
                   \/ drainCalls = 1 /\ respBody = "closed"]_vars

\* C28 witness: the identifier was assigned, drain ran and returned, and the
\* background task then cancelled the context and exited.
C28_Witness ==
    /\ sessionID # ""
    /\ idAssignments = 1
    /\ drainCalls = 1
    /\ bgPc = "done"
    /\ parentErr = "nil"
    /\ ctxErr = "Canceled"

\* C29: RunAsync consumes exactly one line before it returns; the drain
\* closure reads and discards the remaining lines, ends exactly when the
\* stream ends (EOF once no line is left, or a read error), and closes the
\* response body once, after the last read.
C29_DrainReadsToEndAndCloses ==
    /\ []((bgPc \in {"check", "invoke"} /\ bgWait)
             => (linesRead = 1 /\ respBody = "open" /\ closes = 0))
    /\ [](bgPc = "wait" => (respBody = "open" /\ closes = 0 /\ drainEnd = "none"))
    /\ []((drainCalls = 1 /\ bgPc \in {"deferred", "done"})
             => (respBody = "closed" /\ closes = 1 /\ drainEnd \in {"EOF", "error"}))
    /\ [](drainEnd = "EOF" => linesLeft = 0)
    /\ [][/\ linesRead' # linesRead
                => (closes = 0 /\ closes' = 0 /\ linesRead' = linesRead + 1)
          /\ (bgPc = "wait" /\ linesRead' # linesRead)
                => (linesLeft' = linesLeft - 1 /\ bgPc' = "wait")
          /\ (bgPc = "wait" /\ bgPc' # "wait")
                => (\/ drainEnd' = "EOF" /\ linesLeft = 0
                    \/ drainEnd' = "error")]_vars

\* C29 witness: after the start line drain read a further line, met the end
\* of the stream and closed the body.
C29_Witness ==
    /\ drainCalls = 1
    /\ linesRead = 2
    /\ drainEnd = "EOF"
    /\ closes = 1
    /\ respBody = "closed"

\* C30: the Timeout of the http.Client of a call is the duration parsed from
\* the request's timeout string when it parses, and the client's default of
\* 30 s otherwise, also for the empty string; the options of the command do
\* not influence it.
C30_TimeoutFromRequestOrDefault ==
    facPc = "done"
       => /\ ParseDuration(facTimeout).ok
                => facHttpTimeout = ParseDuration(facTimeout).ms
          /\ ~ParseDuration(facTimeout).ok => facHttpTimeout = 30000
          /\ facTimeout \in {<<>>, sFive, sSoon, s1s2} => facHttpTimeout = 30000
          /\ facTimeout = s1m30s => facHttpTimeout = 90000
          /\ facTimeout = s1p5s => facHttpTimeout = 1500
          /\ facTimeout = s500ms => facHttpTimeout = 500
          /\ facTimeout = sNeg1s => facHttpTimeout = 0 - 1000
          /\ facTimeout = <<"0">> => facHttpTimeout = 0

\* C30 witness: a command sent with the option timeout:2s on a program whose
\* MessageTimeout is empty ran under the default of 30 s.
C30_Witness ==
    /\ facPc = "done"
    /\ facTimeout = <<>>
    /\ facIn.opts = <<WithTimeout(s2s)>>
    /\ facHttpTimeout = 30000

\* the round trip of the Message call ended with an HTTP response
Answered == msgPc = "done" /\ ~msgCtxDone /\ ~msgResponse.transportErr

\* what RunAsync returns for the response the Message call received
StartOfResponse == RunAsync(msgCtxDone, msgResponse)

\* C31: a response with a non-2xx status makes Message and RunAsync fail with
\* an error that carries the status code and the response body; nothing of
\* it is parsed and no envelope is returned.
C31_Non2xxCarriesStatusAndBody ==
    (Answered /\ msgResponse.status \notin 200..299)
       => /\ msgRet.env = <<>>
          /\ msgRet.err # NilError
          /\ msgRet.err.status = msgResponse.status
          /\ msgRet.err.body = msgResponse.body
          /\ msgRespBytes = <<>> /\ msgObjects = <<>> /\ msgFound = <<>>
          /\ StartOfResponse.res = <<>>
          /\ ~StartOfResponse.wait
          /\ StartOfResponse.err.status = msgResponse.status
          /\ StartOfResponse.err.body = msgResponse.body

\* C31 witness: a 500 whose body holds an envelope with the requested
\* identifier was reported as an error with that status and body.
C31_Witness ==
    /\ Answered
    /\ msgResponse.status = 500
    /\ msgRequestID = "a"
    /\ msgResponse.body = <<"{", "a1", "}">>
    /\ msgRet.env = <<>>
    /\ msgRet.err.status = 500
    /\ msgRet.err.body = <<"{", "a1", "}">>

\* C32: only status 200 is accepted: every other status, 201 included, is
\* reported as an error and its body is never parsed as an envelope.
C32_Only200Accepted ==
    (Answered /\ msgResponse.status # 200)
       => /\ msgRet.env = <<>>
          /\ msgRet.err.kind = "failed to fetch the page: status code"
          /\ msgRespBytes = <<>> /\ msgObjects = <<>> /\ msgFound = <<>>
          /\ StartOfResponse.res = <<>>
          /\ ~StartOfResponse.wait
          /\ StartOfResponse.err.kind = "failed to fetch the page: status code"

\* C32 witness: a 201 whose body holds the envelope with the requested
\* identifier was refused.
C32_Witness ==
    /\ Answered
    /\ msgResponse.status = 201
    /\ msgRequestID = "a"
    /\ msgResponse.body = <<"{", "a1", "}">>
    /\ msgRet.env = <<>>
    /\ msgRet.err.status = 201

\* C33: a body with two or more "}\n{" boundaries makes Message fail with
\* the unmarshal error and return no envelope, also when one of its objects
\* carries the requested identifier.
C33_TwoBoundariesFailToUnmarshal ==
    (msgPc = "done" /\ Delivered
        /\ Cardinality(BoundaryPositions(msgResponse.body)) >= 2)
       => /\ msgRet.env = <<>>
          /\ msgRet.err.kind = "failed to unmarshal baas response"
          /\ msgObjects = <<>> /\ msgFound = <<>>

\* C33 witness: three objects on three lines, the last one with the
\* requested identifier, were refused as a whole.
C33_Witness ==
    /\ msgPc = "done"
    /\ Delivered
    /\ msgRequestID = "a"
    /\ msgResponse.body = <<"{", "b1", "}", "\n", "{", "b2", "}", "\n", "{", "a1", "}">>
    /\ msgRet.env = <<>>
    /\ msgRet.err.kind = "failed to unmarshal baas response"

\* C34: every response body the client obtained is closed in the end: once
\* the background task has exited, the body of the start response is not
\* left open, on whichever path the task exited.
C34_EveryBodyClosed ==
    bgPc = "done" => respBody # "open"

\* C35: whenever NewProgram returns a Program with a nil error, at that
\* moment the session is Ready and the Program's context is not cancelled
\* (stated for the runs in which the caller has not cancelled its context,
\* so that only the background task and the barrier loop interleave).
C35_ReturnedProgramIsReady ==
    [][(mainPc # "returned" /\ mainPc' = "returned" /\ newRet'.prog
           /\ parentErr' = "nil")
          => (ctxErr' = "nil" /\ SessionState' = "Ready")]_vars

\* RunAsync returned a first envelope with an empty session identifier and
\* no error
StartedWithoutID ==
    /\ bgPc # "RunAsync"
    /\ bgErr = NilError
    /\ bgRes # <<>>
    /\ bgRes[1].sessionID = ""
    /\ bgRes[1].error = ""

\* C36: when the first line of the start response carries an empty session
\* identifier and no error, NewProgram never returns a Program: it leaves
\* the ready barrier only with the context done, returning its error.
C36_EmptyIDNeverReturnsProgram ==
    StartedWithoutID
       => /\ mainPc # "gotID"
          /\ mainPc = "returned"
                => (~newRet.prog /\ newRet.err # "nil" /\ ctxErr # "nil")

\* C36 witness: the stream of a session without identifier ended, the
\* background task cancelled the context, and NewProgram returned the
\* cancellation error to a caller that had not cancelled.
C36_Witness ==
    /\ StartedWithoutID
    /\ drainCalls = 1
    /\ bgPc = "done"
    /\ parentErr = "nil"
    /\ mainPc = "returned"
    /\ ~newRet.prog
    /\ newRet.err = "Canceled"

\* C37: TakeScreenshot returns an error and no bytes when the response
\* holds no non-empty screenshot under the requested name;
\* ExecuteAndDownloadFile and DownloadFile return an error and write no file
\* when the downloaded file is empty; neither returns an empty payload as
\* success.
C37_EmptyPayloadIsAnError ==
    facPc = "done"
       => /\ (/\ facMethod \in ScreenshotMethods
              /\ facRes.env = <<>> \/ Screenshot(facRes.env[1], facIn.arg1) = "")
                => (facOut.err # NilError /\ facOut.value = Absent /\ ~facOut.panicked)
          /\ (/\ facMethod \in FileMethods
              /\ facRes.env = <<>> \/ facRes.env[1].downloadedFile = "")
                => (facOut.err # NilError /\ facOut.value = Absent /\ facFile = NoFile)
          /\ (facMethod \in ScreenshotMethods \cup FileMethods /\ facOut.err = NilError)
                => (facOut.value.type = "[]byte" /\ facOut.value.val # "")

\* C37 witness: TakeScreenshot was answered with an envelope that holds the
\* requested name with zero bytes, and returned an error.
C37_Witness ==
    /\ facPc = "done"
    /\ facMethod = "TakeScreenshot"
    /\ facIn.arg1 = sButton
    /\ facRes.err = NilError
    /\ facRes.env[1].screenshots = {[name |-> sButton, bytes |-> ""]}
    /\ facOut.err # NilError
    /\ facOut.value = Absent

\* C38: Execute sends the given program string verbatim as the command,
\* whatever ActionOptions it is called with.
C38_ExecuteSendsProgramVerbatim ==
    (facPc = "done" /\ facMethod = "Execute") => facCommands = <<facIn.program>>

\* C38 witness: Execute called with the option timeout:2s dispatched the
\* script alone.
C38_Witness ==
    /\ facPc = "done"
    /\ facMethod = "Execute"
    /\ facIn.opts = <<WithTimeout(s2s)>>
    /\ facCommands = <<sScript>>

====
